---------------------------- MODULE Spec2Model ----------------------------
(***************************************************************************)
(* Authentication, device pairing and preference store of the Olympia      *)
(* dashboard API (src/api/auth).  Every database function opens its own    *)
(* SQLite connection, so one SQL statement (with its commit) is one atomic *)
(* step and the statements of concurrent requests interleave.              *)
(***************************************************************************)
EXTENDS Integers, Sequences, FiniteSets, TLC

VARIABLES
    user_preferences,   \* table user_preferences: user_id -> row
    now,                \* the clock, in seconds (CURRENT_TIMESTAMP)
    calls,              \* worker -> the database call it is executing
    ncalls,             \* number of calls started so far
    wcount,             \* history: user_id -> number of committed writes
    users,              \* table users: id -> row
    device_codes,       \* table device_codes: id -> row
    device_sessions,    \* table device_sessions: set of rows
    tz,                 \* offset of the server's local time from UTC, seconds
    reqs,               \* worker -> the device request it is handling
    nreqs,              \* number of device requests started so far
    pair_log,           \* history: code id -> users whose pairing reported success
    sessions,           \* table sessions: set of rows
    sqlite_sequence,    \* table name -> last AUTOINCREMENT id given out
    auth_reqs,          \* worker -> the session request it is handling
    nauth,              \* number of logins started so far
    rate_limits,        \* table rate_limits: (identifier, endpoint) -> row
    limits,             \* endpoint -> max_requests of its rate_limit decorator
    rate_reqs,          \* worker -> the rate-limit check it is executing
    nrate,              \* number of rate-limit checks started so far
    widget_permissions,         \* table: (user_id, widget_id) -> row
    group_widget_permissions,   \* table: (group_id, widget_id) -> row
    group_members,      \* table group_members: set of (group_id, user_id)
    access,             \* the last check_widget_access call and its result
    flat_permissions,   \* table permissions: set of rows
    role_permissions,   \* table role_permissions: set of (role, permission)
    allowed,            \* the last capability check and its result
    granted,            \* the last grant call and its result
    conns,              \* socket id -> the connection and its client
    rooms,              \* Socket.IO rooms: user_id -> socket ids in room user_<id>
    active_sessions,    \* dict active_sessions: user_id -> set object, 0 for no key
    heap,               \* set object -> the socket ids in it
    nsets,              \* number of set objects created so far
    handlers,           \* socket id -> the event handler running for it
    inbox,              \* socket id -> the event its client received last
    nsaves              \* number of preference saves by clients so far

device_vars == <<users, device_codes, device_sessions, tz, reqs, nreqs, pair_log>>
prefs_vars == <<user_preferences, calls, ncalls, wcount>>
session_vars == <<sessions, auth_reqs, nauth>>
rate_vars == <<rate_limits, limits, rate_reqs, nrate>>
widget_vars == <<widget_permissions, group_widget_permissions, group_members, access>>
gate_vars == <<rate_vars, widget_vars>>
perm_vars == <<flat_permissions, role_permissions, allowed, granted>>
socket_vars == <<conns, rooms, active_sessions, heap, nsets, handlers, inbox, nsaves>>
side_vars == <<perm_vars, socket_vars>>
rest_vars == <<session_vars, gate_vars, side_vars>>
vars == <<user_preferences, now, calls, ncalls, wcount,
          users, device_codes, device_sessions, tz, reqs, nreqs, pair_log,
          sessions, sqlite_sequence, auth_reqs, nauth,
          rate_limits, limits, rate_reqs, nrate,
          widget_permissions, group_widget_permissions, group_members, access,
          flat_permissions, role_permissions, allowed, granted,
          conns, rooms, active_sessions, heap, nsets, handlers, inbox, nsaves>>

-----------------------------------------------------------------------------
(* Bounds *)

MaxCalls == 2     \* preference calls started in one run
MaxClock == 1     \* seconds the clock may advance

UserIds == {1, 2}
Workers == {"w1", "w2"}

-----------------------------------------------------------------------------
(* JSON documents.  A Python value is a tagged variant: a number, an array *)
(* or an object (dict) whose keys are strings; a string is the sequence of *)
(* its characters.                                                         *)

Num(n) == [k |-> "num", v |-> n]
Arr(s) == [k |-> "arr", v |-> s]
Obj(f) == [k |-> "obj", v |-> f]

isinstance_dict(x) == x.k = "obj"

EmptyDict == Obj(<<>>)

\* An enumeration of a finite set (the iteration order of a dict).
RECURSIVE items(_)
items(S) ==
    IF S = {} THEN <<>>
    ELSE LET e == CHOOSE x \in S : TRUE IN <<e>> \o items(S \ {e})

\* json.dumps: the text of a value; an object is written as the list of its
\* members, key then value, an array as the list of its elements.
RECURSIVE json_dumps(_)
json_dumps(x) ==
    IF x.k = "obj"
    THEN LET ks == items(DOMAIN x.v)
         IN [k |-> "{", v |-> [i \in 1..Len(ks) |-> <<ks[i], json_dumps(x.v[ks[i]])>>]]
    ELSE IF x.k = "arr"
    THEN [k |-> "[", v |-> [i \in 1..Len(x.v) |-> json_dumps(x.v[i])]]
    ELSE [k |-> "n", v |-> x.v]

\* dict built from a member list, read left to right: a later member with
\* the same key replaces the earlier one.
RECURSIVE dict_of(_)
dict_of(ms) ==
    IF ms = <<>> THEN <<>>
    ELSE LET rest == dict_of(SubSeq(ms, 1, Len(ms) - 1))
             last == ms[Len(ms)]
         IN [key \in DOMAIN rest \cup {last[1]} |->
                IF key = last[1] THEN last[2] ELSE rest[key]]

\* json.loads: the value a text denotes.
RECURSIVE json_loads(_)
json_loads(t) ==
    IF t.k = "{"
    THEN Obj(dict_of([i \in 1..Len(t.v) |-> <<t.v[i][1], json_loads(t.v[i][2])>>]))
    ELSE IF t.k = "["
    THEN Arr([i \in 1..Len(t.v) |-> json_loads(t.v[i])])
    ELSE Num(t.v)


-----------------------------------------------------------------------------
(* Preference store: pure parts of update and delete *)

None == -1      \* Python None where a version (or a timestamp) is expected

version_conflict_newer(expected_version, current_version) ==
    expected_version # None /\ current_version < expected_version

\* set_user_preferences: "if expected_version is not None and
\* current_version != expected_version: return None"
version_conflict(expected_version, current_version) ==
    expected_version # None /\ current_version # expected_version

deep_merge_shallow(base, updates) ==
    [key \in DOMAIN base \cup DOMAIN updates |->
        IF key \in DOMAIN updates THEN updates[key] ELSE base[key]]

\* deep_merge(base, updates) of update_user_preferences, on dicts.
RECURSIVE deep_merge(_, _)
deep_merge(base, updates) ==
    [key \in DOMAIN base \cup DOMAIN updates |->
        IF key \notin DOMAIN updates THEN base[key]
        ELSE IF key \in DOMAIN base /\ isinstance_dict(base[key])
                                    /\ isinstance_dict(updates[key])
             THEN Obj(deep_merge(base[key].v, updates[key].v))
             ELSE updates[key]]

\* key.split('.')
RECURSIVE split(_)
split(key) ==
    IF \A i \in 1..Len(key) : key[i] # "."
    THEN <<key>>
    ELSE LET i == CHOOSE j \in 1..Len(key) :
                      key[j] = "." /\ \A h \in 1..(j - 1) : key[h] # "."
         IN <<SubSeq(key, 1, i - 1)>> \o split(SubSeq(key, i + 1, Len(key)))

\* "del obj[key]" guarded by "key in obj"
del_key(obj, key) ==
    IF key \in DOMAIN obj THEN [h \in DOMAIN obj \ {key} |-> obj[h]] ELSE obj

RECURSIVE delete_nested_no_else(_, _)
delete_nested_no_else(obj, parts) ==
    IF Len(parts) = 1 THEN del_key(obj, parts[1])
    ELSE IF parts[1] \in DOMAIN obj /\ isinstance_dict(obj[parts[1]])
         THEN [obj EXCEPT ![parts[1]] =
                  Obj(delete_nested_no_else(obj[parts[1]].v, Tail(parts)))]
         ELSE del_key(obj, parts[Len(parts)])

\* The walk along parts[:-1] of delete_user_preferences and the deletion of
\* parts[-1] in the dict it ends in; a part that is missing or is no dict
\* breaks the walk and nothing is deleted.
RECURSIVE delete_nested(_, _)
delete_nested(obj, parts) ==
    IF Len(parts) = 1 THEN del_key(obj, parts[1])
    ELSE IF parts[1] \in DOMAIN obj /\ isinstance_dict(obj[parts[1]])
         THEN [obj EXCEPT ![parts[1]] = Obj(delete_nested(obj[parts[1]].v, Tail(parts)))]
         ELSE obj

\* One round of "for key in preference_keys".
delete_one(prefs, key) ==
    IF \E i \in 1..Len(key) : key[i] = "."
    THEN delete_nested(prefs, split(key))
    ELSE del_key(prefs, key)

\* preference_keys is a string or a list of strings.
key_list(preference_keys) ==
    IF preference_keys.k = "str" THEN <<preference_keys.v>> ELSE preference_keys.v

RECURSIVE delete_keys(_, _)
delete_keys(prefs, keys) ==
    IF keys = <<>> THEN prefs
    ELSE delete_keys(delete_one(prefs, Head(keys)), Tail(keys))

-----------------------------------------------------------------------------
(* Inputs of the preference calls *)

ka == <<"a">>
kb == <<"b">>
kx == <<"x">>
ky == <<"y">>
k_a_x == <<"a", ".", "x">>
k_b_x == <<"b", ".", "x">>
k_x_y == <<"x", ".", "y">>
k_a_y_x == <<"a", ".", "y", ".", "x">>

\* {"a": {"y": 2}} and {"a": {"x": 1, "y": 2}, "b": [1], "a.x": 2}
Documents ==
    { Obj(ka :> Obj(ky :> Num(2))),
      Obj(ka :> Obj(kx :> Num(1) @@ ky :> Num(2)) @@ kb :> Arr(<<Num(1)>>)
          @@ k_a_x :> Num(2)) }

\* {"a": {"x": 1}}, {"a": 3} and {"a": {"y": {"x": 1}}, "b": [2]}
Updates ==
    { Obj(ka :> Obj(kx :> Num(1))),
      Obj(ka :> Num(3)),
      Obj(ka :> Obj(ky :> Obj(kx :> Num(1))) @@ kb :> Arr(<<Num(2)>>)) }

\* "a.x", ["b.x", "x.y"] and ["a.y.x", "b"]
KeyArgs ==
    { [k |-> "str", v |-> k_a_x],
      [k |-> "list", v |-> <<k_b_x, k_x_y>>],
      [k |-> "list", v |-> <<k_a_y_x, kb>>] }

-----------------------------------------------------------------------------
(* Preference store: the table and the calls on it *)

NoRow == [exists |-> FALSE, preferences |-> json_dumps(EmptyDict),
          version |-> 0, updated_at |-> None]

NoResult == [kind |-> "", version |-> 0, preferences |-> EmptyDict, updated_at |-> None]

\* A worker's call.  op, user_id, preferences, arg and expected_version are
\* what the caller passed; outer_version is the expected_version of the
\* update or delete that called set; found and new_version are locals of
\* set_user_preferences.  The rest is history kept for the properties:
\* get_seq, write_seq (wcount of the user at its get, after its write),
\* loaded (the document its get returned), over (the version stored
\* immediately before its write).
Idle ==
    [op |-> "", pc |-> "idle", user_id |-> 0, preferences |-> EmptyDict,
     arg |-> EmptyDict, expected_version |-> None, outer_version |-> None,
     found |-> FALSE, new_version |-> 0, ret |-> NoResult,
     get_seq |-> 0, write_seq |-> 0,
     loaded |-> EmptyDict, over |-> 0]

\* get_user_preferences: one SELECT; an absent row reads as {}, version 0.
get_user_preferences(user_id) ==
    LET result == user_preferences[user_id]
    IN IF result.exists
       THEN [kind |-> "prefs", preferences |-> json_loads(result.preferences),
             version |-> result.version, updated_at |-> result.updated_at]
       ELSE [kind |-> "prefs", preferences |-> EmptyDict, version |-> 0,
             updated_at |-> None]

\* The users that call, and the versions they pass as expected_version.
Callers == {1}
ExpectedVersions == {None, 0, 1}

\* The rows a user may have when the run begins: none, or a document
\* written once.
InitialRows ==
    {NoRow} \cup {[exists |-> TRUE, preferences |-> json_dumps(d), version |-> 1,
                    updated_at |-> 0] : d \in Documents}

Begin(w, op, pc, user_id) ==
    [Idle EXCEPT !.op = op, !.pc = pc, !.user_id = user_id]

CallGet(w) ==
    \E u \in Callers :
        /\ calls[w].pc = "idle" /\ ncalls < MaxCalls
        /\ calls' = [calls EXCEPT ![w] = Begin(w, "get", "get", u)]
        /\ ncalls' = ncalls + 1
        /\ UNCHANGED <<user_preferences, now, wcount, device_vars, rest_vars, sqlite_sequence>>

CallSet(w) ==
    \E u \in Callers, doc \in Documents, ev \in ExpectedVersions :
        /\ calls[w].pc = "idle" /\ ncalls < MaxCalls
        /\ calls' = [calls EXCEPT ![w] =
                        [Begin(w, "set", "set_read", u) EXCEPT
                            !.preferences = doc, !.expected_version = ev]]
        /\ ncalls' = ncalls + 1
        /\ UNCHANGED <<user_preferences, now, wcount, device_vars, rest_vars, sqlite_sequence>>

CallUpdate(w) ==
    \E u \in Callers, upd \in Updates, ev \in ExpectedVersions :
        /\ calls[w].pc = "idle" /\ ncalls < MaxCalls
        /\ calls' = [calls EXCEPT ![w] =
                        [Begin(w, "update", "upd_get", u) EXCEPT
                            !.arg = upd, !.outer_version = ev]]
        /\ ncalls' = ncalls + 1
        /\ UNCHANGED <<user_preferences, now, wcount, device_vars, rest_vars, sqlite_sequence>>

CallDelete(w) ==
    \E u \in Callers, keys \in KeyArgs :
        /\ calls[w].pc = "idle" /\ ncalls < MaxCalls
        /\ calls' = [calls EXCEPT ![w] =
                        [Begin(w, "delete", "del_get", u) EXCEPT !.arg = keys]]
        /\ ncalls' = ncalls + 1
        /\ UNCHANGED <<user_preferences, now, wcount, device_vars, rest_vars, sqlite_sequence>>

\* get_user_preferences called on its own.
Get(w) ==
    LET c == calls[w] IN
    /\ c.pc = "get"
    /\ calls' = [calls EXCEPT ![w] =
                    [c EXCEPT !.pc = "done", !.ret = get_user_preferences(c.user_id),
                              !.get_seq = wcount[c.user_id]]]
    /\ UNCHANGED <<user_preferences, now, ncalls, wcount, device_vars, rest_vars, sqlite_sequence>>

\* update_user_preferences up to its call of set_user_preferences.
UpdateGet(w) ==
    LET c == calls[w]
        current == get_user_preferences(c.user_id)
    IN
    /\ c.pc = "upd_get"
    /\ calls' = [calls EXCEPT ![w] =
          IF version_conflict(c.outer_version, current.version)
          THEN [c EXCEPT !.pc = "done", !.ret = [NoResult EXCEPT !.kind = "none"],
                         !.get_seq = wcount[c.user_id], !.loaded = current.preferences]
          ELSE [c EXCEPT !.pc = "set_read",
                         !.preferences = Obj(deep_merge(current.preferences.v, c.arg.v)),
                         !.expected_version = current.version,
                         !.get_seq = wcount[c.user_id], !.loaded = current.preferences]]
    /\ UNCHANGED <<user_preferences, now, ncalls, wcount, device_vars, rest_vars, sqlite_sequence>>

\* delete_user_preferences up to its call of set_user_preferences.
DeleteGet(w) ==
    LET c == calls[w]
        current == get_user_preferences(c.user_id)
    IN
    /\ c.pc = "del_get"
    /\ calls' = [calls EXCEPT ![w] =
          [c EXCEPT !.pc = "set_read",
                    !.preferences = Obj(delete_keys(current.preferences.v, key_list(c.arg))),
                    !.expected_version = current.version,
                    !.get_seq = wcount[c.user_id], !.loaded = current.preferences]]
    /\ UNCHANGED <<user_preferences, now, ncalls, wcount, device_vars, rest_vars, sqlite_sequence>>

\* set_user_preferences: SELECT version, then the version check.
SetRead(w) ==
    LET c == calls[w]
        result == user_preferences[c.user_id]
    IN
    /\ c.pc = "set_read"
    /\ calls' = [calls EXCEPT ![w] =
          IF result.exists /\ version_conflict(c.expected_version, result.version)
          THEN [c EXCEPT !.pc = "done", !.found = TRUE,
                         !.ret = [NoResult EXCEPT !.kind = "none"]]
          ELSE [c EXCEPT !.pc = "set_write", !.found = result.exists,
                         !.new_version = IF result.exists THEN result.version + 1 ELSE 1]]
    /\ UNCHANGED <<user_preferences, now, ncalls, wcount, device_vars, rest_vars, sqlite_sequence>>

\* The row the UPDATE leaves, or the INSERT creates, at time t.
written_row_default(c, t) ==
    [exists |-> TRUE,
     preferences |-> IF c.found THEN json_dumps(c.preferences) ELSE json_dumps(EmptyDict),
     version |-> c.new_version, updated_at |-> t]

written_row(c, t) ==
    [exists |-> TRUE, preferences |-> json_dumps(c.preferences),
     version |-> c.new_version, updated_at |-> t]

\* set_user_preferences: the UPDATE or the INSERT, and the commit.  The
\* INSERT of a user_id that has a row by now raises IntegrityError.
\* CURRENT_TIMESTAMP is the clock, which has advanced by any amount since
\* the last statement.
SetWrite(w) ==
    LET c == calls[w]
        row == user_preferences[c.user_id]
    IN
    /\ c.pc = "set_write"
    /\ IF ~c.found /\ row.exists
       THEN /\ calls' = [calls EXCEPT ![w] =
                   [c EXCEPT !.pc = "done", !.ret = [NoResult EXCEPT !.kind = "raise"]]]
            /\ UNCHANGED <<user_preferences, wcount, now>>
       ELSE /\ now' \in now..MaxClock
            /\ user_preferences' = [user_preferences EXCEPT ![c.user_id] =
                                        written_row(c, now')]
            /\ wcount' = [wcount EXCEPT ![c.user_id] = @ + 1]
            /\ calls' = [calls EXCEPT ![w] =
                   [c EXCEPT !.pc = "done",
                             !.ret = [NoResult EXCEPT !.kind = "version",
                                                      !.version = c.new_version],
                             !.over = row.version,
                             !.write_seq = wcount[c.user_id] + 1]]
    /\ UNCHANGED <<ncalls, device_vars, rest_vars, sqlite_sequence>>

\* The caller takes the result; the worker is free again.
Return(w) ==
    /\ calls[w].pc = "done"
    /\ calls' = [calls EXCEPT ![w] = Idle]
    /\ UNCHANGED <<user_preferences, now, ncalls, wcount, device_vars, rest_vars, sqlite_sequence>>

-----------------------------------------------------------------------------
(* Device pairing: the device_codes and device_sessions tables of          *)
(* database.py and the code, pair and poll routes of device_routes.py.     *)
(* Times are whole seconds.  datetime.now() is the server's local time,    *)
(* CURRENT_TIMESTAMP is SQLite's UTC time.                                  *)

MaxReqs == 3        \* pair and poll requests started in one run
MaxCodes == 1       \* device codes requested in one run
MaxSeconds == 1     \* single seconds the clock may advance after a jump

DEVICE_CODE_MINUTES == 15   \* lifetime of a device code
DEVICE_SESSION_DAYS == 30   \* lifetime of a device session

TimeZones == {-3600, 0, 3600}
CodeIds == 1..MaxCodes
DeviceWorkers == {1, 2}

timedelta_minutes(m) == m * 60
timedelta_days(d) == d * 86400
datetime_now == now + tz
CURRENT_TIMESTAMP == now

\* A device_codes row.  The random device_code and user_code strings of a
\* row are unique and are both represented by the row's id.  A deleted row
\* is kept with exists = FALSE: its id is not given out again
\* (AUTOINCREMENT), and its other fields record what the row was.
NoCode ==
    [exists |-> FALSE, id |-> 0, user_id |-> None, expires_at |-> 0,
     created_at |-> 0, paired_at |-> None]

NoToken == [type |-> "", user_id |-> 0, role |-> "", iat |-> 0]

\* the access token with the role claim of a plain user, whatever the role
generate_access_token_as_user(user_id, role) ==
    [type |-> "access", user_id |-> user_id, role |-> "user", iat |-> now]

generate_access_token(user_id, role) ==
    [type |-> "access", user_id |-> user_id, role |-> role, iat |-> now]

generate_refresh_token(user_id) ==
    [type |-> "refresh", user_id |-> user_id, role |-> "", iat |-> now]

\* the values of users.role
Roles == {"admin", "user"}

InitialUsers ==
    [u \in UserIds |->
        [id |-> u, is_active |-> TRUE, role |-> IF u = 1 THEN "admin" ELSE "user"]]

get_user_by_id(user_id) == users[user_id]

get_device_code_by_user_code(user_code) == device_codes[user_code]

get_device_code_by_device_code(device_code) == device_codes[device_code]

IdleReq ==
    [op |-> "", pc |-> "idle", user_id |-> None, code |-> 0,
     device_code_data |-> NoCode, access_token |-> NoToken,
     refresh_token |-> NoToken, expires_at |-> 0, status |-> 0, resp |-> ""]

\* A request is taken by the first worker that is not handling one; what a
\* free worker holds is the response it sent last.
Free(w) ==
    /\ reqs[w].pc \in {"idle", "done"}
    /\ \A v \in DeviceWorkers : v < w => reqs[v].pc \notin {"idle", "done"}

\* the response is sent and the handler's locals are gone
Respond(r, status, resp) ==
    [r EXCEPT !.pc = "done", !.status = status, !.resp = resp,
              !.device_code_data = NoCode, !.expires_at = 0]

\* Time passes: a second, or the lifetime of a device code.
Tick ==
    /\ \E d \in {1, timedelta_minutes(DEVICE_CODE_MINUTES)} :
        /\ d = 1 => now % timedelta_minutes(DEVICE_CODE_MINUTES) < MaxSeconds
        /\ now + d <= timedelta_minutes(DEVICE_CODE_MINUTES) + MaxSeconds
        /\ now' = now + d
    /\ UNCHANGED <<prefs_vars, device_vars, rest_vars, sqlite_sequence>>

\* POST /device/code: create_device_code inserts a fresh, unpaired row.
create_device_code(id) ==
    [exists |-> TRUE, id |-> id, user_id |-> None,
     expires_at |-> datetime_now + timedelta_minutes(DEVICE_CODE_MINUTES),
     created_at |-> CURRENT_TIMESTAMP, paired_at |-> None]

request_device_code ==
    /\ \E id \in CodeIds :
        /\ device_codes[id].id = 0
        /\ \A j \in CodeIds : j < id => device_codes[j].id # 0
        /\ device_codes' = [device_codes EXCEPT ![id] = create_device_code(id)]
    /\ UNCHANGED <<prefs_vars, rest_vars, sqlite_sequence, now, users, device_sessions, tz, reqs, nreqs, pair_log>>

\* DELETE FROM device_codes WHERE expires_at < CURRENT_TIMESTAMP AND user_id IS NULL
cleanup_expired_device_codes ==
    /\ \E id \in CodeIds :
        /\ device_codes[id].exists
        /\ device_codes[id].expires_at < CURRENT_TIMESTAMP
        /\ device_codes[id].user_id = None
    /\ device_codes' =
        [id \in CodeIds |->
            IF /\ device_codes[id].exists
               /\ device_codes[id].expires_at < CURRENT_TIMESTAMP
               /\ device_codes[id].user_id = None
            THEN [device_codes[id] EXCEPT !.exists = FALSE]
            ELSE device_codes[id]]
    /\ UNCHANGED <<prefs_vars, rest_vars, sqlite_sequence, now, users, device_sessions, tz, reqs, nreqs, pair_log>>

\* expires_at < datetime.now(), the expiry test of the pair and poll routes
is_expired_inclusive(expires_at, local_now) == expires_at <= local_now

is_expired(expires_at, local_now) == expires_at < local_now

\* if device_code_data['user_id']: the code has been paired before
already_used_unchecked(device_code_data) == FALSE

already_used(device_code_data) == device_code_data.user_id # None

\* POST /device/pair, after require_auth admitted the active user user_id:
\* pair_device up to the call of pair_device_code, that is the lookup and
\* the route's own checks of expiry and of an earlier pairing
PairLookup(w) ==
    /\ Free(w)
    /\ nreqs < MaxReqs
    /\ \E user_id \in UserIds, user_code \in CodeIds :
        /\ users[user_id].is_active
        /\ LET device_code_data == get_device_code_by_user_code(user_code)
               q == [IdleReq EXCEPT !.op = "pair", !.user_id = user_id,
                                    !.code = user_code,
                                    !.device_code_data = device_code_data]
           IN  reqs' = [reqs EXCEPT ![w] =
                    IF ~device_code_data.exists
                    THEN Respond(q, 404, "Invalid code")
                    ELSE IF is_expired(device_code_data.expires_at, datetime_now)
                    THEN Respond(q, 400, "Code has expired")
                    ELSE IF already_used(device_code_data)
                    THEN Respond(q, 400, "Code has already been used")
                    ELSE [q EXCEPT !.pc = "pair_update"]]
    /\ nreqs' = nreqs + 1
    /\ UNCHANGED <<prefs_vars, rest_vars, sqlite_sequence, now, users, device_codes, device_sessions, tz, pair_log>>

\* WHERE user_code = ? AND expires_at > CURRENT_TIMESTAMP AND user_id IS NULL
pair_where_any_owner(row, user_code) ==
    /\ row.exists
    /\ row.id = user_code
    /\ row.expires_at > CURRENT_TIMESTAMP

pair_where(row, user_code) ==
    /\ row.exists
    /\ row.id = user_code
    /\ row.expires_at > CURRENT_TIMESTAMP
    /\ row.user_id = None

\* pair_device_code: one conditional UPDATE, then the route's response
PairUpdate(w) ==
    /\ reqs[w].pc = "pair_update"
    /\ LET r == reqs[w]
           matched == {id \in CodeIds : pair_where(device_codes[id], r.code)}
           success == matched # {}
       IN  /\ device_codes' =
                [id \in CodeIds |->
                    IF id \in matched
                    THEN [device_codes[id] EXCEPT !.user_id = r.user_id,
                                                  !.paired_at = CURRENT_TIMESTAMP]
                    ELSE device_codes[id]]
           /\ reqs' = [reqs EXCEPT ![w] =
                IF success THEN Respond(r, 200, "Device paired successfully")
                           ELSE Respond(r, 500, "Failed to pair device")]
           /\ pair_log' =
                IF success THEN [pair_log EXCEPT ![r.code] = Append(@, r.user_id)]
                           ELSE pair_log
    /\ UNCHANGED <<prefs_vars, rest_vars, sqlite_sequence, now, users, device_sessions, tz, nreqs>>

\* POST /device/poll: poll_device_code up to the pending response
PollLookup(w) ==
    /\ Free(w)
    /\ nreqs < MaxReqs
    /\ \E device_code \in CodeIds :
        LET device_code_data == get_device_code_by_device_code(device_code)
            q == [IdleReq EXCEPT !.op = "poll", !.code = device_code,
                                 !.device_code_data = device_code_data]
        IN  reqs' = [reqs EXCEPT ![w] =
                IF ~device_code_data.exists
                THEN Respond(q, 404, "Invalid device code")
                ELSE IF is_expired(device_code_data.expires_at, datetime_now)
                THEN Respond(q, 400, "expired")
                ELSE IF device_code_data.user_id = None
                THEN Respond(q, 200, "pending")
                ELSE [q EXCEPT !.pc = "poll_user"]]
    /\ nreqs' = nreqs + 1
    /\ UNCHANGED <<prefs_vars, rest_vars, sqlite_sequence, now, users, device_codes, device_sessions, tz, pair_log>>

\* the lookup of the paired user and the minting of the two tokens
PollUser(w) ==
    /\ reqs[w].pc = "poll_user"
    /\ LET r == reqs[w]
           user == get_user_by_id(r.device_code_data.user_id)
       IN  reqs' = [reqs EXCEPT ![w] =
                IF ~user.is_active
                THEN Respond(r, 401, "User not found or inactive")
                ELSE [r EXCEPT !.pc = "poll_session",
                               !.user_id = user.id,
                               !.access_token = generate_access_token(user.id, user.role),
                               !.refresh_token = generate_refresh_token(user.id),
                               !.expires_at = datetime_now + timedelta_days(DEVICE_SESSION_DAYS)]]
    /\ UNCHANGED <<prefs_vars, rest_vars, sqlite_sequence, now, users, device_codes, device_sessions, tz, nreqs, pair_log>>

\* create_device_session: a plain INSERT; refresh_token is UNIQUE, and an
\* IntegrityError becomes the route's 500 response
PollCreateSession(w) ==
    /\ reqs[w].pc = "poll_session"
    /\ LET r == reqs[w]
       IN  IF \E s \in device_sessions : s.refresh_token = r.refresh_token
           THEN /\ reqs' = [reqs EXCEPT ![w] =
                        Respond([r EXCEPT !.access_token = NoToken,
                                          !.refresh_token = NoToken], 500, "error")]
                /\ UNCHANGED <<device_sessions, sqlite_sequence>>
           ELSE /\ device_sessions' = device_sessions \cup
                        {[id |-> sqlite_sequence.device_sessions + 1,
                          device_code_id |-> r.device_code_data.id,
                          user_id |-> r.user_id,
                          refresh_token |-> r.refresh_token,
                          expires_at |-> r.expires_at]}
                /\ sqlite_sequence' =
                        [sqlite_sequence EXCEPT !.device_sessions = @ + 1]
                /\ reqs' = [reqs EXCEPT ![w] = Respond(r, 200, "authorized")]
    /\ UNCHANGED <<prefs_vars, rest_vars, now, users, device_codes, tz, nreqs, pair_log>>

-----------------------------------------------------------------------------
(* Sessions and tokens: the sessions table, the refresh route and the      *)
(* bearer check of middleware.py, and the ways a session row is deleted.   *)

\* what a client presents: a token and whether its signature verifies
NoCredential == [signed |-> FALSE, token |-> NoToken]

\* the worker that serves the session routes
AuthWorkers == {1}

IdleAuth ==
    [op |-> "", pc |-> "idle", user_id |-> None, presented |-> NoCredential,
     target |-> 0, new_role |-> "", was_active |-> FALSE,
     email |-> "", microsoft_id |-> "", role |-> "", user_count |-> 0,
     access_token |-> NoToken,
     refresh_token |-> NoToken, expires_at |-> 0, status |-> 0, resp |-> ""]

MaxAuth == 2        \* logins in one run

ACCESS_TOKEN_EXPIRE_MINUTES == 15
REFRESH_TOKEN_EXPIRE_DAYS == 30
SESSION_DAYS == 30          \* lifetime of a sessions row

\* the exp claim of a token
token_exp(token) ==
    token.iat + (IF token.type = "access"
                 THEN timedelta_minutes(ACCESS_TOKEN_EXPIRE_MINUTES)
                 ELSE timedelta_days(REFRESH_TOKEN_EXPIRE_DAYS))

\* jwt.decode without the signature check
decode_token_unverified(cred) == {cred.token}

\* decode_token: the payload, or None (NoToken) when the signature is bad
\* or the token has expired.  At the very second of exp the answer depends
\* on the PyJWT release (exp < now in 1.x, exp <= now in 2.x).
decode_token(cred) ==
    IF ~cred.signed \/ CURRENT_TIMESTAMP > token_exp(cred.token) THEN {NoToken}
    ELSE IF CURRENT_TIMESTAMP = token_exp(cred.token) THEN {NoToken, cred.token}
    ELSE {cred.token}

\* the type test both contexts apply to a decoded payload, forgotten
has_type_unchecked(payload, type) == payload # NoToken

\* not (not payload or payload.get('type') != type)
has_type(payload, type) == payload # NoToken /\ payload.type = type

\* what a client can present: a token this server signed at some earlier
\* time for some user, or the bytes of one of the first tokens with a
\* signature that does not verify
IssueTimes == {0, 1}
Tokens(times) ==
    {[type |-> "access", user_id |-> u, role |-> InitialUsers[u].role,
      iat |-> i] : u \in UserIds, i \in times}
    \cup
    {[type |-> "refresh", user_id |-> u, role |-> "", iat |-> i] :
        u \in UserIds, i \in times}
Credentials ==
    {[signed |-> TRUE, token |-> t] : t \in Tokens({j \in IssueTimes : j <= now})}
    \cup
    {[signed |-> FALSE, token |-> t] : t \in {v \in Tokens({0}) : v.user_id = 1}}

\* the lookup made by the owner of the token instead of the token
get_session_by_user(refresh_token) ==
    {s \in sessions : s.user_id = refresh_token.user_id}

\* SELECT * FROM sessions WHERE refresh_token = ?
get_session_by_refresh_token(refresh_token) ==
    {s \in sessions : s.refresh_token = refresh_token}

get_device_session_by_refresh_token(refresh_token) ==
    {s \in device_sessions : s.refresh_token = refresh_token}

FreeAuth(w) ==
    /\ auth_reqs[w].pc \in {"idle", "done"}
    /\ \A v \in DOMAIN auth_reqs : v < w => auth_reqs[v].pc \notin {"idle", "done"}

\* worker w is free to take up a request
Begins(w) ==
    /\ FreeAuth(w)
    /\ nauth' = nauth

\* the response; the handler's locals end with it
RespondAuth(r, status, resp) ==
    [IdleAuth EXCEPT !.op = r.op, !.pc = "done", !.presented = r.presented,
                     !.access_token = r.access_token,
                     !.status = status, !.resp = resp]

\* worker w moves on to record r; the response of an earlier request has
\* been delivered by then
Serve(w, r) ==
    [v \in DOMAIN auth_reqs |->
        IF v = w THEN r
        ELSE IF auth_reqs[v].pc = "done" THEN IdleAuth ELSE auth_reqs[v]]

\* one second passes
TickSecond == Tick /\ now' = now + 1

\* the refresh token's lifetime passes at once
TickDays ==
    /\ now <= MaxSeconds
    /\ now' = now + timedelta_days(REFRESH_TOKEN_EXPIRE_DAYS)
    /\ UNCHANGED <<prefs_vars, device_vars, rest_vars, sqlite_sequence>>

\* get_current_user, as require_auth runs it in front of a route: the
\* bearer token is decoded, must be an access token of an active user
get_current_user(w) ==
    /\ Begins(w)
    /\ \E cred \in Credentials : \E payload \in decode_token(cred) :
        LET q == [IdleAuth EXCEPT !.op = "bearer", !.presented = cred]
            user == get_user_by_id(payload.user_id)
        IN  auth_reqs' = Serve(w,
                IF ~has_type(payload, "access")
                THEN RespondAuth(q, 401, "Authentication required")
                ELSE IF ~user.is_active
                THEN RespondAuth(q, 401, "Authentication required")
                ELSE RespondAuth([q EXCEPT !.user_id = user.id], 200, "ok"))
    /\ UNCHANGED <<prefs_vars, side_vars, gate_vars, device_vars, now, sessions, sqlite_sequence>>

\* POST /auth/refresh up to the session lookups: decode, type test, and
\* the search of sessions and then device_sessions for the token
RefreshLookup(w) ==
    /\ Begins(w)
    /\ \E cred \in Credentials : \E payload \in decode_token(cred) :
        LET q == [IdleAuth EXCEPT !.op = "refresh", !.presented = cred]
        IN  auth_reqs' = Serve(w,
                IF ~has_type(payload, "refresh")
                THEN RespondAuth(q, 401, "Invalid refresh token")
                ELSE IF /\ get_session_by_refresh_token(cred.token) = {}
                        /\ get_device_session_by_refresh_token(cred.token) = {}
                THEN RespondAuth(q, 401, "Session not found")
                ELSE [q EXCEPT !.pc = "refresh_user", !.user_id = payload.user_id])
    /\ UNCHANGED <<prefs_vars, side_vars, gate_vars, device_vars, now, sessions, sqlite_sequence>>

\* the rest of refresh: the user lookup and the new access token
RefreshUser(w) ==
    /\ auth_reqs[w].pc = "refresh_user"
    /\ LET r == auth_reqs[w]
           user == get_user_by_id(r.user_id)
       IN  auth_reqs' = Serve(w,
                IF ~user.is_active
                THEN RespondAuth(r, 401, "User not found or inactive")
                ELSE RespondAuth([r EXCEPT !.access_token =
                                    generate_access_token(user.id, user.role)],
                                 200, "ok"))
    /\ UNCHANGED <<prefs_vars, side_vars, gate_vars, device_vars, now, sessions, sqlite_sequence, nauth>>

\* GET /auth/callback from the user lookup on: an inactive user is refused
LoginUser(w) ==
    /\ FreeAuth(w)
    /\ nauth < MaxAuth
    /\ nauth' = nauth + 1
    /\ now \in IssueTimes
    /\ \E u \in UserIds :
        LET user == get_user_by_id(u)
            q == [IdleAuth EXCEPT !.op = "login", !.user_id = u]
        IN  auth_reqs' = Serve(w,
                IF ~user.is_active
                THEN RespondAuth(q, 403, "Your account has been deactivated. Please contact an administrator.")
                ELSE [q EXCEPT !.pc = "login_session",
                               !.access_token = generate_access_token(user.id, user.role),
                               !.refresh_token = generate_refresh_token(user.id),
                               !.expires_at = datetime_now + timedelta_days(SESSION_DAYS)])
    /\ UNCHANGED <<prefs_vars, side_vars, gate_vars, device_vars, now, sessions, sqlite_sequence>>

\* create_session: a plain INSERT; refresh_token is UNIQUE
LoginCreateSession(w) ==
    /\ auth_reqs[w].pc = "login_session"
    /\ LET r == auth_reqs[w]
       IN  IF get_session_by_refresh_token(r.refresh_token) # {}
           THEN /\ auth_reqs' = Serve(w,
                        RespondAuth([r EXCEPT !.access_token = NoToken], 500, "error"))
                /\ UNCHANGED <<sessions, sqlite_sequence>>
           ELSE /\ sessions' = sessions \cup
                        {[id |-> sqlite_sequence.sessions + 1,
                          user_id |-> r.user_id,
                          refresh_token |-> r.refresh_token,
                          expires_at |-> r.expires_at]}
                /\ sqlite_sequence' = [sqlite_sequence EXCEPT !.sessions = @ + 1]
                /\ auth_reqs' = Serve(w, [r EXCEPT !.pc = "login_cleanup"])
    /\ UNCHANGED <<prefs_vars, side_vars, gate_vars, device_vars, now, nauth>>

\* DELETE FROM sessions WHERE expires_at < CURRENT_TIMESTAMP
cleanup_expired_sessions ==
    {s \in sessions : ~(s.expires_at < CURRENT_TIMESTAMP)}

\* the sweep that ends the callback, and its response
LoginCleanup(w) ==
    /\ auth_reqs[w].pc = "login_cleanup"
    /\ sessions' = cleanup_expired_sessions
    /\ auth_reqs' = Serve(w, RespondAuth(auth_reqs[w], 200, "ok"))
    /\ UNCHANGED <<prefs_vars, side_vars, gate_vars, device_vars, now, sqlite_sequence, nauth>>

\* DELETE FROM sessions WHERE refresh_token = ?
delete_session(refresh_token) ==
    {s \in sessions : s.refresh_token # refresh_token}

\* POST /auth/logout after require_auth: delete_session on the refresh
\* token of the body, a stored one or one that no row holds
Logout(w) ==
    /\ Begins(w)
    /\ \E u \in UserIds,
          refresh_token \in {NoToken} \cup {s.refresh_token : s \in sessions} :
        /\ users[u].is_active
        /\ sessions' = delete_session(refresh_token)
        /\ auth_reqs' = Serve(w,
                RespondAuth([IdleAuth EXCEPT !.op = "logout"], 200, "ok"))
    /\ UNCHANGED <<prefs_vars, side_vars, gate_vars, device_vars, now, sqlite_sequence>>

\* DELETE /auth/sessions/<id> after require_auth: the user's own session
delete_session_by_id(w) ==
    /\ Begins(w)
    /\ \E u \in UserIds, session_id \in 1..MaxAuth :
        /\ users[u].is_active
        /\ LET session == {s \in sessions : s.id = session_id /\ s.user_id = u}
               q == [IdleAuth EXCEPT !.op = "delete_session", !.user_id = u,
                                     !.target = session_id]
           IN  /\ sessions' = sessions \ session
               /\ auth_reqs' = Serve(w,
                    IF session = {} THEN RespondAuth(q, 404, "Session not found")
                                    ELSE RespondAuth(q, 200, "Session deleted"))
    /\ UNCHANGED <<prefs_vars, side_vars, gate_vars, device_vars, now, sqlite_sequence>>

\* DELETE /device/sessions/<id> after require_auth: the user's own device
delete_device_session(w) ==
    /\ Begins(w)
    /\ \E u \in UserIds, session_id \in 1..MaxAuth :
        /\ users[u].is_active
        /\ LET session == {s \in device_sessions : s.id = session_id /\ s.user_id = u}
               q == [IdleAuth EXCEPT !.op = "delete_device_session", !.user_id = u,
                                     !.target = session_id]
           IN  /\ device_sessions' = device_sessions \ session
               /\ auth_reqs' = Serve(w,
                    IF session = {} THEN RespondAuth(q, 404, "Device session not found")
                                    ELSE RespondAuth(q, 200, "Device session deleted"))
    /\ UNCHANGED <<prefs_vars, side_vars, gate_vars, now, sessions, sqlite_sequence,
                   users, device_codes, tz, reqs, nreqs, pair_log>>

\* DELETE /admin/device-sessions/<id> after require_role('admin'): the
\* device session with that id if there is one, else the browser session
admin_delete_session(w) ==
    /\ Begins(w)
    /\ \E admin \in UserIds, session_id \in 1..MaxAuth :
        /\ users[admin].is_active /\ users[admin].role = "admin"
        /\ LET device == {s \in device_sessions : s.id = session_id}
               browser == {s \in sessions : s.id = session_id}
               q == [IdleAuth EXCEPT !.op = "admin_delete_session",
                                     !.user_id = admin, !.target = session_id]
           IN  /\ device_sessions' = device_sessions \ device
               /\ sessions' = IF device # {} THEN sessions ELSE sessions \ browser
               /\ auth_reqs' = Serve(w,
                    IF device # {} THEN RespondAuth(q, 200, "Device session deleted")
                    ELSE IF browser # {} THEN RespondAuth(q, 200, "Browser session deleted")
                    ELSE RespondAuth(q, 404, "Session not found"))
    /\ UNCHANGED <<prefs_vars, side_vars, gate_vars, now, sqlite_sequence,
                   users, device_codes, tz, reqs, nreqs, pair_log>>

\* PUT /admin/users/<id>/toggle-active after require_role('admin'): the
\* lookup of the target, who must not be the admin
ToggleRead(w) ==
    /\ Begins(w)
    /\ \E admin \in UserIds, user_id \in UserIds :
        /\ users[admin].is_active /\ users[admin].role = "admin"
        /\ LET user == get_user_by_id(user_id)
               q == [IdleAuth EXCEPT !.op = "toggle", !.user_id = admin,
                                     !.target = user_id,
                                     !.was_active = user.is_active]
           IN  auth_reqs' = Serve(w,
                    IF user_id = admin
                    THEN [RespondAuth(q, 400, "You cannot deactivate your own account")
                            EXCEPT !.user_id = admin, !.target = user_id]
                    ELSE [q EXCEPT !.pc = "toggle_write"])
    /\ UNCHANGED <<prefs_vars, side_vars, gate_vars, device_vars, now, sessions, sqlite_sequence>>

\* UPDATE users SET is_active = NOT is_active WHERE id = ?
toggle_user_active(user_id) ==
    [users EXCEPT ![user_id].is_active = ~@]

\* toggle_user_active; the new status is worked out from the earlier lookup
ToggleWrite(w) ==
    /\ auth_reqs[w].pc = "toggle_write"
    /\ users' = toggle_user_active(auth_reqs[w].target)
    /\ auth_reqs' = Serve(w,
            IF auth_reqs[w].was_active
            THEN [auth_reqs[w] EXCEPT !.pc = "toggle_sessions"]
            ELSE RespondAuth(auth_reqs[w], 200, "User set to active"))
    /\ UNCHANGED <<prefs_vars, side_vars, gate_vars, now, sessions, sqlite_sequence, nauth,
                   device_codes, device_sessions, tz, reqs, nreqs, pair_log>>

\* delete_all_user_sessions: DELETE FROM sessions WHERE user_id = ?
delete_all_user_sessions(user_id) ==
    {s \in sessions : s.user_id # user_id}

ToggleSessions(w) ==
    /\ auth_reqs[w].pc = "toggle_sessions"
    /\ sessions' = delete_all_user_sessions(auth_reqs[w].target)
    /\ auth_reqs' = Serve(w,
            RespondAuth(auth_reqs[w], 200, "User set to inactive"))
    /\ UNCHANGED <<prefs_vars, side_vars, gate_vars, device_vars, now, sqlite_sequence, nauth>>

\* the roles a client may name in PUT /admin/users/<id>/role: the two the
\* route knows, one it does not know, and none
RoleInputs == {"user", "admin", "viewer", ""}

\* the route's test of the target, with the test for the admin's own id left out
demotes_self_unchecked(user_id, admin, new_role) == FALSE

\* user_id == admin_user['id'] and new_role != 'admin'
demotes_self(user_id, admin, new_role) ==
    user_id = admin /\ new_role # "admin"

\* PUT /admin/users/<id>/role after require_role('admin'): the test of the
\* role, the lookup of the target and the test for self-demotion
RoleRead(w) ==
    /\ Begins(w)
    /\ \E admin \in UserIds, user_id \in UserIds, new_role \in RoleInputs :
        /\ users[admin].is_active /\ users[admin].role = "admin"
        /\ LET q == [IdleAuth EXCEPT !.op = "change_role", !.user_id = admin,
                                     !.target = user_id, !.new_role = new_role]
               refused(error) ==
                    [RespondAuth(q, 400, error)
                        EXCEPT !.user_id = admin, !.target = user_id,
                               !.new_role = new_role]
           IN  auth_reqs' = Serve(w,
                    IF new_role \notin {"user", "admin"}
                    THEN refused("Invalid role. Must be \"user\" or \"admin\"")
                    ELSE IF demotes_self(user_id, admin, new_role)
                    THEN refused("You cannot change your own role")
                    ELSE [q EXCEPT !.pc = "role_write"])
    /\ UNCHANGED <<prefs_vars, side_vars, gate_vars, device_vars, now, sessions, sqlite_sequence>>

\* UPDATE users SET role = ? WHERE id = ?
update_user_role(user_id, role) ==
    [users EXCEPT ![user_id].role = role]

\* update_user_role and the response
RoleWrite(w) ==
    /\ auth_reqs[w].pc = "role_write"
    /\ users' = update_user_role(auth_reqs[w].target, auth_reqs[w].new_role)
    /\ auth_reqs' = Serve(w,
            RespondAuth(auth_reqs[w], 200, "User role updated successfully"))
    /\ UNCHANGED <<prefs_vars, side_vars, gate_vars, now, sessions, sqlite_sequence, nauth,
                   device_codes, device_sessions, tz, reqs, nreqs, pair_log>>

\* The accounts of GET /auth/callback: the e-mail addresses and Microsoft
\* ids that sign in
Emails == {"ann@olympia.test", "bob@olympia.test"}
MicrosoftIds == {"ms-1", "ms-2"}

\* SELECT ... FROM users WHERE email = ?
get_user_by_email(email) == {id \in DOMAIN users : users[id].email = email}

\* the UNIQUE constraints of users: no other row than those in `but` has
\* the e-mail address or the Microsoft id
unique_user(email, microsoft_id, but) ==
    \A id \in DOMAIN users \ but :
        users[id].email # email /\ users[id].microsoft_id # microsoft_id

\* create_user(email, name, microsoft_id, role): SELECT COUNT(*) FROM users.
\* The columns name, created_at and last_login are read by nothing here
\* and are left out.
CreateCount(w) ==
    /\ Begins(w)
    /\ \E email \in Emails, microsoft_id \in MicrosoftIds, role \in Roles :
        auth_reqs' = Serve(w,
            [IdleAuth EXCEPT !.op = "create_user", !.pc = "create_insert",
                             !.email = email, !.microsoft_id = microsoft_id,
                             !.role = role,
                             !.user_count = Cardinality(DOMAIN users)])
    /\ UNCHANGED <<prefs_vars, side_vars, gate_vars, device_vars, now, sessions, sqlite_sequence>>

\* the row of the INSERT; is_active takes its default, and the id is the
\* next AUTOINCREMENT value (no statement deletes from users)
new_user(email, microsoft_id, role) ==
    [id |-> Cardinality(DOMAIN users) + 1, email |-> email,
     microsoft_id |-> microsoft_id, role |-> role, is_active |-> TRUE]

\* `if user_count == 0: role = 'admin'` and the INSERT, which raises
\* IntegrityError when the e-mail address or the Microsoft id is taken
CreateInsert(w) ==
    /\ auth_reqs[w].pc = "create_insert"
    /\ LET r == auth_reqs[w]
           role == IF r.user_count = 0 THEN "admin" ELSE r.role
           row == new_user(r.email, r.microsoft_id, role)
       IN  IF unique_user(r.email, r.microsoft_id, {})
           THEN /\ users' = [id \in DOMAIN users \cup {row.id} |->
                                IF id = row.id THEN row ELSE users[id]]
                /\ auth_reqs' = Serve(w,
                        [RespondAuth(r, 200, "created")
                            EXCEPT !.user_id = row.id, !.email = r.email,
                                   !.role = r.role, !.user_count = r.user_count])
           ELSE /\ users' = users
                /\ auth_reqs' = Serve(w, [r EXCEPT !.pc = "create_update"])
    /\ UNCHANGED <<prefs_vars, side_vars, gate_vars, now, sessions, sqlite_sequence, nauth,
                   device_codes, device_sessions, tz, reqs, nreqs, pair_log>>

\* except sqlite3.IntegrityError: UPDATE users SET name = ?, microsoft_id = ?,
\* last_login = CURRENT_TIMESTAMP WHERE email = ?.  The UPDATE raises
\* IntegrityError in its turn when another row has the Microsoft id.
CreateUpdate(w) ==
    /\ auth_reqs[w].pc = "create_update"
    /\ LET r == auth_reqs[w]
           rows == get_user_by_email(r.email)
       IN  IF rows # {} /\ ~unique_user("", r.microsoft_id, rows)
           THEN /\ users' = users
                /\ auth_reqs' = Serve(w,
                        [RespondAuth(r, 500, "IntegrityError")
                            EXCEPT !.email = r.email])
           ELSE /\ users' = [id \in DOMAIN users |->
                                IF id \in rows
                                THEN [users[id] EXCEPT !.microsoft_id = r.microsoft_id]
                                ELSE users[id]]
                /\ auth_reqs' = Serve(w, [r EXCEPT !.pc = "create_select"])
    /\ UNCHANGED <<prefs_vars, side_vars, gate_vars, now, sessions, sqlite_sequence, nauth,
                   device_codes, device_sessions, tz, reqs, nreqs, pair_log>>

\* SELECT id FROM users WHERE email = ?; fetchone()[0] raises TypeError
\* when there is no such row
CreateSelect(w) ==
    /\ auth_reqs[w].pc = "create_select"
    /\ LET r == auth_reqs[w]
           rows == get_user_by_email(r.email)
       IN  auth_reqs' = Serve(w,
                IF rows = {}
                THEN [RespondAuth(r, 500, "TypeError") EXCEPT !.email = r.email]
                ELSE [RespondAuth(r, 200, "updated")
                        EXCEPT !.user_id = CHOOSE id \in rows : TRUE,
                               !.email = r.email])
    /\ UNCHANGED <<prefs_vars, side_vars, gate_vars, device_vars, now, sessions, sqlite_sequence, nauth>>

\* DELETE /admin/users/<id>/sessions after require_role('admin')
revoke_all_sessions(w) ==
    /\ Begins(w)
    /\ \E admin \in UserIds, user_id \in UserIds :
        /\ users[admin].is_active /\ users[admin].role = "admin"
        /\ sessions' = delete_all_user_sessions(user_id)
        /\ auth_reqs' = Serve(w,
                RespondAuth([IdleAuth EXCEPT !.op = "revoke_all_sessions"],
                            200, "All sessions revoked"))
    /\ UNCHANGED <<prefs_vars, side_vars, gate_vars, device_vars, now, sqlite_sequence>>

\* POST /admin/system/cleanup: the sweep of expired sessions; the sweep of
\* device codes that follows it is cleanup_expired_device_codes
cleanup_system ==
    /\ sessions' = cleanup_expired_sessions
    /\ sessions' # sessions
    /\ UNCHANGED <<prefs_vars, side_vars, gate_vars, device_vars, now, sqlite_sequence, auth_reqs, nauth>>

-----------------------------------------------------------------------------
(* The rate limiter: check_rate_limit of database.py behind the rate_limit *)
(* decorator of middleware.py.  The SELECT of a check and the INSERT or    *)
(* UPDATE that follows it are two statements.                              *)

MaxChecks == 3      \* rate-limit checks started in one run
MaxLimit == 2       \* largest max_requests of a decorator

WINDOW_MINUTES == 1

\* str(user['id']) of a signed-in caller, request.remote_addr of another
Identifiers == {"1", "10.0.0.7"}
Endpoints == {"auth.refresh", "device.poll_device_code"}
RateKeys == Identifiers \X Endpoints
RateWorkers == {1, 2}

NoRate == [exists |-> FALSE, count |-> 0, window_start |-> 0]

IdleRate ==
    [pc |-> "idle", identifier |-> "", endpoint |-> "", branch |-> "",
     status |-> 0]

FreeRate(w) ==
    /\ rate_reqs[w].pc \in {"idle", "done"}
    /\ \A v \in RateWorkers : v < w => rate_reqs[v].pc \notin {"idle", "done"}

\* a second or a whole window passes
TickWindow ==
    /\ \E d \in {1, timedelta_minutes(WINDOW_MINUTES)} :
        /\ d = 1 => now % timedelta_minutes(WINDOW_MINUTES) < MaxSeconds
        /\ now + d <= timedelta_minutes(WINDOW_MINUTES) + MaxSeconds
        /\ now' = now + d
    /\ UNCHANGED <<prefs_vars, side_vars, device_vars, session_vars, sqlite_sequence,
                   rate_vars, widget_vars>>

\* stored_window < window_start, with window_start the local
\* datetime.now() - timedelta(minutes=window_minutes) and stored_window
\* the CURRENT_TIMESTAMP the row was written with
window_elapsed(result) ==
    result.window_start < datetime_now - timedelta_minutes(WINDOW_MINUTES)

\* check_rate_limit up to its write: the SELECT and the choice of branch.
\* A limited request ends here with 429.
RateRead(w) ==
    /\ FreeRate(w)
    /\ nrate < MaxChecks
    /\ nrate' = nrate + 1
    /\ \E identifier \in Identifiers, endpoint \in Endpoints :
        LET result == rate_limits[<<identifier, endpoint>>]
            q == [IdleRate EXCEPT !.identifier = identifier, !.endpoint = endpoint]
        IN  rate_reqs' = [rate_reqs EXCEPT ![w] =
                IF ~result.exists
                THEN [q EXCEPT !.pc = "write", !.branch = "insert"]
                ELSE IF window_elapsed(result)
                THEN [q EXCEPT !.pc = "write", !.branch = "reset"]
                ELSE IF result.count >= limits[endpoint]
                THEN [q EXCEPT !.pc = "done", !.branch = "limited", !.status = 429]
                ELSE [q EXCEPT !.pc = "write", !.branch = "increment"]]
    /\ UNCHANGED <<prefs_vars, side_vars, device_vars, session_vars, sqlite_sequence, now,
                   rate_limits, limits, widget_vars>>

\* the write of check_rate_limit, after which the route runs.  The INSERT
\* meets UNIQUE(identifier, endpoint) when the row has appeared meanwhile.
RateWrite(w) ==
    /\ rate_reqs[w].pc = "write"
    /\ LET r == rate_reqs[w]
           k == <<r.identifier, r.endpoint>>
           row == rate_limits[k]
       IN  IF r.branch = "insert" /\ row.exists
           THEN /\ rate_reqs' = [rate_reqs EXCEPT ![w] =
                        [r EXCEPT !.pc = "done", !.status = 500]]
                /\ UNCHANGED rate_limits
           ELSE /\ rate_limits' = [rate_limits EXCEPT ![k] =
                        IF r.branch = "insert"
                        THEN [exists |-> TRUE, count |-> 1,
                              window_start |-> CURRENT_TIMESTAMP]
                        ELSE IF r.branch = "reset"
                        THEN [row EXCEPT !.count = 1,
                                         !.window_start = CURRENT_TIMESTAMP]
                        ELSE [row EXCEPT !.count = @ + 1]]
                /\ rate_reqs' = [rate_reqs EXCEPT ![w] =
                        [r EXCEPT !.pc = "done", !.status = 200]]
    /\ UNCHANGED <<prefs_vars, side_vars, device_vars, session_vars, sqlite_sequence, now,
                   limits, nrate, widget_vars>>

-----------------------------------------------------------------------------
(* Widget permissions: get_user_widget_permissions and check_widget_access *)

Widgets == {"sales", "weather"}
Groups == {1, 2}

NoGrant == [exists |-> FALSE, access_level |-> "", granted_by |-> None,
            expires_at |-> None]
NoAccess == [user_id |-> None, widget_id |-> "", required_level |-> "",
             user_level |-> "", result |-> FALSE]

Levels == {"view", "edit", "admin"}

\* levels.get(level, 0)
levels(level) ==
    CASE level = "view" -> 1
      [] level = "edit" -> 2
      [] level = "admin" -> 3
      [] OTHER -> 0

\* expires_at IS NULL OR expires_at > CURRENT_TIMESTAMP
unexpired(row) ==
    row.exists /\ (row.expires_at = None \/ row.expires_at > CURRENT_TIMESTAMP)

\* the dict of the first SELECT: widget -> level, "" where the user has no
\* unexpired row
direct_permissions(user_id) ==
    [w \in Widgets |->
        IF unexpired(widget_permissions[<<user_id, w>>])
        THEN widget_permissions[<<user_id, w>>].access_level ELSE ""]

\* the groups whose unexpired grant on the widget the JOIN returns
group_rows(user_id, w) ==
    {g \in Groups : /\ <<g, user_id>> \in group_members
                     /\ unexpired(group_widget_permissions[<<g, w>>])}

\* the dicts that the second SELECT can give: the query has no ORDER BY and
\* the dict comprehension keeps, for each widget, the row that comes last
group_permissions(user_id) ==
    {f \in [Widgets -> Levels \cup {""}] :
        \A w \in Widgets :
            IF group_rows(user_id, w) = {} THEN f[w] = ""
            ELSE \E g \in group_rows(user_id, w) :
                    f[w] = group_widget_permissions[<<g, w>>].access_level}

\* {**direct_permissions, **group_permissions}
all_permissions_group_last(group, direct) ==
    [w \in Widgets |-> IF group[w] # "" THEN group[w] ELSE direct[w]]

\* {**group_permissions, **direct_permissions}
all_permissions(group, direct) ==
    [w \in Widgets |-> IF direct[w] # "" THEN direct[w] ELSE group[w]]

get_user_widget_permissions(user_id) ==
    {all_permissions(group, direct_permissions(user_id)) :
        group \in group_permissions(user_id)}

\* the role test left out
not_admin(user) == FALSE

\* user and user['role'] == 'admin'
is_admin(user) == user.role = "admin"

\* the outcomes check_widget_access can have: user_level, its local
\* permissions.get(widget_id) (never read for an admin), and the result
check_widget_access(user_id, widget_id, required_level) ==
    IF is_admin(get_user_by_id(user_id))
    THEN {[user_level |-> "", result |-> TRUE]}
    ELSE {[user_level |-> permissions[widget_id],
           result |-> IF permissions[widget_id] = "" THEN FALSE
                      ELSE levels(permissions[widget_id]) >= levels(required_level)] :
                permissions \in get_user_widget_permissions(user_id)}

\* one call of check_widget_access
CheckAccess ==
    /\ \E user_id \in UserIds, widget_id \in Widgets, required_level \in Levels :
        \E out \in check_widget_access(user_id, widget_id, required_level) :
            access' = [user_id |-> user_id, widget_id |-> widget_id,
                       required_level |-> required_level,
                       user_level |-> out.user_level, result |-> out.result]
    /\ UNCHANGED <<prefs_vars, side_vars, device_vars, session_vars, sqlite_sequence, now,
                   rate_vars, widget_permissions, group_widget_permissions,
                   group_members>>

\* the rows a grant can leave in a permission table
ExpiryTimes == {None, 1}
Grants ==
    {NoGrant} \cup
    {[exists |-> TRUE, access_level |-> l, granted_by |-> None, expires_at |-> e] :
        l \in Levels, e \in ExpiryTimes}

-----------------------------------------------------------------------------
(* Flat permissions: grant_permission, has_permission, require_permission *)

PermissionNames == {"view_reports", "manage_users"}

NoAllowed == [op |-> "", user_id |-> None, permission |-> "",
              result |-> FALSE, status |-> 0]
NoGranted == [op |-> "", subject |-> None, target |-> "", access_level |-> "",
              expires_at |-> None, granted_by |-> None, branch |-> "",
              result |-> FALSE]

\* SELECT permission FROM permissions WHERE user_id = ?
get_user_permissions(user_id) ==
    {r.permission : r \in {q \in flat_permissions : q.user_id = user_id}}

\* permission in permissions
has_permission(user_id, permission) ==
    permission \in get_user_permissions(user_id)

\* SELECT permission FROM role_permissions WHERE role = ?  (read by
\* has_role_permission only; no route and no decorator calls that)
get_role_permissions(role) ==
    {r[2] : r \in {q \in role_permissions : q[1] = role}}

\* a call of has_permission
HasPermission ==
    /\ \E user_id \in UserIds, permission \in PermissionNames :
        allowed' = [op |-> "has_permission", user_id |-> user_id,
                    permission |-> permission,
                    result |-> has_permission(user_id, permission),
                    status |-> 0]
    /\ UNCHANGED <<prefs_vars, device_vars, session_vars, gate_vars, socket_vars,
                   sqlite_sequence, now, flat_permissions, role_permissions, granted>>

\* a request of the authenticated user user_id to a route decorated with
\* require_permission(permission): 200 stands for the call of the route
RequirePermission ==
    /\ \E user_id \in UserIds, permission \in PermissionNames :
        LET user == get_user_by_id(user_id)
            ok == user.role = "admin" \/ has_permission(user.id, permission)
        IN  allowed' = [op |-> "require_permission", user_id |-> user_id,
                        permission |-> permission, result |-> ok,
                        status |-> IF ok THEN 200 ELSE 403]
    /\ UNCHANGED <<prefs_vars, device_vars, session_vars, gate_vars, socket_vars,
                   sqlite_sequence, now, flat_permissions, role_permissions, granted>>

\* POST /admin/users/<user_id>/permissions by the admin granted_by:
\* grant_permission inserts the row, or fails on UNIQUE(user_id, permission)
grant_permission(user_id, permission, granted_by) ==
    /\ LET present == \E r \in flat_permissions :
                        r.user_id = user_id /\ r.permission = permission
       IN  /\ flat_permissions' =
                IF present THEN flat_permissions
                ELSE flat_permissions \cup {[user_id |-> user_id,
                                        permission |-> permission,
                                        granted_by |-> granted_by]}
           /\ granted' = [NoGranted EXCEPT !.op = "grant_permission",
                                           !.subject = user_id,
                                           !.target = permission,
                                           !.granted_by = granted_by,
                                           !.branch = IF present
                                                      THEN "IntegrityError"
                                                      ELSE "insert",
                                           !.result = ~present]
    /\ UNCHANGED <<prefs_vars, device_vars, session_vars, gate_vars, socket_vars,
                   sqlite_sequence, now, role_permissions, allowed>>

\* DELETE FROM permissions WHERE user_id = ? AND permission = ?
revoke_permission(user_id, permission) ==
    /\ flat_permissions' = {r \in flat_permissions :
                        ~(r.user_id = user_id /\ r.permission = permission)}
    /\ granted' = NoGranted
    /\ UNCHANGED <<prefs_vars, device_vars, session_vars, gate_vars, socket_vars,
                   sqlite_sequence, now, role_permissions, allowed>>

\* the tables and records of this section at rest
NoPerms ==
    /\ flat_permissions = {}
    /\ role_permissions = {}
    /\ allowed = NoAllowed
    /\ granted = NoGranted

-----------------------------------------------------------------------------
(* Grants of widget permissions: grant_widget_permission,                  *)
(* grant_group_widget_permission and bulk_grant_widget_permissions.  A     *)
(* call is one step; granted_at is read by nothing here and is left out.   *)

\* the row of the INSERT
inserted_grant(access_level, granted_by, expires_at) ==
    [exists |-> TRUE, access_level |-> access_level, granted_by |-> granted_by,
     expires_at |-> expires_at]

\* an UPDATE that sets the level and nothing else
updated_grant_level(row, access_level, granted_by, expires_at) ==
    [row EXCEPT !.access_level = access_level]

\* UPDATE ... SET access_level = ?, granted_by = ?, expires_at = ?
updated_grant(row, access_level, granted_by, expires_at) ==
    [row EXCEPT !.access_level = access_level, !.granted_by = granted_by,
                !.expires_at = expires_at]

\* the INSERT, and on IntegrityError (UNIQUE(subject, widget_id)) the UPDATE
upsert_grant(table, key, access_level, granted_by, expires_at) ==
    [table EXCEPT ![key] =
        IF table[key].exists
        THEN updated_grant(table[key], access_level, granted_by, expires_at)
        ELSE inserted_grant(access_level, granted_by, expires_at)]

\* what the call leaves in `granted`
grant_call(op, table, subject, widget_id, access_level, granted_by, expires_at) ==
    [NoGranted EXCEPT !.op = op, !.subject = subject, !.target = widget_id,
                      !.access_level = access_level, !.granted_by = granted_by,
                      !.expires_at = expires_at,
                      !.branch = IF table[<<subject, widget_id>>].exists
                                 THEN "update" ELSE "insert",
                      !.result = TRUE]

grant_widget_permission(user_id, widget_id, access_level, granted_by, expires_at) ==
    /\ widget_permissions' = upsert_grant(widget_permissions, <<user_id, widget_id>>,
                                          access_level, granted_by, expires_at)
    /\ granted' = grant_call("grant_widget_permission", widget_permissions,
                             user_id, widget_id, access_level, granted_by, expires_at)
    /\ UNCHANGED <<prefs_vars, device_vars, session_vars, rate_vars, socket_vars,
                   sqlite_sequence, now, group_widget_permissions, group_members,
                   access, flat_permissions, role_permissions, allowed>>

grant_group_widget_permission(group_id, widget_id, access_level, granted_by, expires_at) ==
    /\ group_widget_permissions' =
            upsert_grant(group_widget_permissions, <<group_id, widget_id>>,
                         access_level, granted_by, expires_at)
    /\ granted' = grant_call("grant_group_widget_permission", group_widget_permissions,
                             group_id, widget_id, access_level, granted_by, expires_at)
    /\ UNCHANGED <<prefs_vars, device_vars, session_vars, rate_vars, socket_vars,
                   sqlite_sequence, now, widget_permissions, group_members,
                   access, flat_permissions, role_permissions, allowed>>

\* INSERT OR REPLACE INTO widget_permissions (user_id, widget_id,
\* access_level, granted_by) for every pair: the row that was there goes and
\* the new one has no expires_at.  `granted` keeps the call on the first pair.
bulk_grant_widget_permissions(user_ids, widget_ids, access_level, granted_by) ==
    /\ widget_permissions' =
            [k \in DOMAIN widget_permissions |->
                IF k[1] \in user_ids /\ k[2] \in widget_ids
                THEN inserted_grant(access_level, granted_by, None)
                ELSE widget_permissions[k]]
    /\ LET user_id == CHOOSE u \in user_ids : \A v \in user_ids : u <= v
           widget_id == CHOOSE x \in widget_ids : TRUE
       IN  granted' = grant_call("bulk_grant_widget_permissions", widget_permissions,
                                 user_id, widget_id, access_level, granted_by, None)
    /\ UNCHANGED <<prefs_vars, device_vars, session_vars, rate_vars, socket_vars,
                   sqlite_sequence, now, group_widget_permissions, group_members,
                   access, flat_permissions, role_permissions, allowed>>

-----------------------------------------------------------------------------
(* Real-time channel: the registry active_sessions of app.py and the join, *)
(* disconnect and broadcast_preferences handlers.  Each statement of a     *)
(* handler is a step; handlers of different connections interleave (the    *)
(* development server runs them in threads), those of one connection run   *)
(* one after another.                                                      *)

MaxJoins == 2       \* join events of one connection
MaxRunning == 2     \* handlers running at the same time
MaxSaves == 1       \* preference saves by clients in one run

Sids == {1, 2, 3}
ObjIds == 1..(Cardinality(Sids) * MaxJoins)

NoPayload == [user_id |-> None, preferences |-> EmptyDict, version |-> 0,
              origin_session_id |-> ""]
NoMessage == [event |-> "", user_id |-> None, session_count |-> 0,
              payload |-> NoPayload]
IdleHandler == [op |-> "", pc |-> "idle", user_id |-> None, todo |-> <<>>,
                error |-> ""]

\* the session id that the tab of a connection generated for itself
session_id(sid) == IF sid = 1 THEN "tab-1" ELSE IF sid = 2 THEN "tab-2" ELSE "tab-3"

\* active_sessions.get(room, set())
get_sessions(user_id) ==
    IF active_sessions[user_id] = 0 THEN {} ELSE heap[active_sessions[user_id]]

\* emit(event, ..., to=room): every connected member of the room receives
emit_to_room(box, user_id, message) ==
    [t \in Sids |-> IF t \in rooms[user_id] /\ conns[t].live THEN message
                    ELSE box[t]]

\* join, `if user_id:` and join_room(room)
JoinRoom(sid, user_id) ==
    /\ conns[sid].live
    /\ handlers[sid].pc = "idle"
    /\ conns[sid].joins < MaxJoins
    /\ conns' = [conns EXCEPT ![sid].joins = @ + 1]
    /\ rooms' = [rooms EXCEPT ![user_id] = @ \cup {sid}]
    /\ handlers' = [handlers EXCEPT ![sid] =
            [IdleHandler EXCEPT !.op = "join", !.pc = "track", !.user_id = user_id]]
    /\ UNCHANGED <<prefs_vars, device_vars, session_vars, gate_vars, perm_vars,
                   sqlite_sequence, now, active_sessions, heap, nsets, inbox, nsaves>>

\* if room not in active_sessions: active_sessions[room] = set()
JoinTrack(sid) ==
    /\ handlers[sid].pc = "track"
    /\ LET user_id == handlers[sid].user_id
       IN  IF active_sessions[user_id] = 0
           THEN /\ nsets' = nsets + 1
                /\ heap' = [heap EXCEPT ![nsets + 1] = {}]
                /\ active_sessions' = [active_sessions EXCEPT ![user_id] = nsets + 1]
           ELSE UNCHANGED <<active_sessions, heap, nsets>>
    /\ handlers' = [handlers EXCEPT ![sid].pc = "add"]
    /\ UNCHANGED <<prefs_vars, device_vars, session_vars, gate_vars, perm_vars,
                   sqlite_sequence, now, conns, rooms, inbox, nsaves>>

\* active_sessions[room].add(request.sid); KeyError when the key is gone
JoinAdd(sid) ==
    /\ handlers[sid].pc = "add"
    /\ LET user_id == handlers[sid].user_id
       IN  IF active_sessions[user_id] = 0
           THEN /\ handlers' = [handlers EXCEPT ![sid].pc = "idle",
                                                ![sid].error = "KeyError"]
                /\ heap' = heap
           ELSE /\ handlers' = [handlers EXCEPT ![sid].pc = "count"]
                /\ heap' = [heap EXCEPT ![active_sessions[user_id]] = @ \cup {sid}]
    /\ UNCHANGED <<prefs_vars, device_vars, session_vars, gate_vars, perm_vars,
                   sqlite_sequence, now, conns, rooms, active_sessions, nsets,
                   inbox, nsaves>>

\* session_count = len(active_sessions[room]), emit('joined') to the
\* caller and, for a second or later session, session_count_updated to the room
JoinCount(sid) ==
    /\ handlers[sid].pc = "count"
    /\ LET user_id == handlers[sid].user_id
           session_count == Cardinality(get_sessions(user_id))
           joined == [NoMessage EXCEPT !.event = "joined", !.user_id = user_id,
                                       !.session_count = session_count]
           updated == [joined EXCEPT !.event = "session_count_updated"]
       IN  IF active_sessions[user_id] = 0
           THEN /\ handlers' = [handlers EXCEPT ![sid].pc = "idle",
                                                ![sid].error = "KeyError"]
                /\ inbox' = inbox
           ELSE /\ handlers' = [handlers EXCEPT ![sid].pc = "idle"]
                /\ inbox' = IF session_count > 1
                            THEN emit_to_room([inbox EXCEPT ![sid] = joined],
                                              user_id, updated)
                            ELSE [inbox EXCEPT ![sid] = joined]
    /\ UNCHANGED <<prefs_vars, device_vars, session_vars, gate_vars, perm_vars,
                   sqlite_sequence, now, conns, rooms, active_sessions, heap,
                   nsets, nsaves>>

\* the loop left after the first room
next_room_first(h, error) ==
    [IdleHandler EXCEPT !.op = "disconnect", !.error = error]

\* the handler's work on the current room is over: the next room of the
\* snapshot, or the end of the handler, after which Socket.IO takes the
\* connection out of its rooms
next_room(h, error) ==
    IF Len(h.todo) = 1 \/ error # ""
    THEN [IdleHandler EXCEPT !.op = "disconnect", !.error = error]
    ELSE [h EXCEPT !.pc = "loop", !.todo = Tail(@)]

leave_rooms(sid, h) ==
    IF h.pc = "idle" THEN [u \in UserIds |-> rooms[u] \ {sid}] ELSE rooms

\* list(active_sessions.items()): the keys with their set objects (the
\* handler treats every room alike, so one order of the keys stands for all)
snapshot ==
    LET at(u) == IF active_sessions[u] = 0 THEN <<>> ELSE << <<u, active_sessions[u]>> >>
    IN  at(1) \o at(2)

\* disconnect: the connection is gone and the handler takes its snapshot
DisconnectStart(sid) ==
    /\ conns[sid].live
    /\ handlers[sid].pc = "idle"
    /\ conns' = [conns EXCEPT ![sid].live = FALSE]
    /\ LET h == IF snapshot = <<>> THEN [IdleHandler EXCEPT !.op = "disconnect"]
                ELSE [IdleHandler EXCEPT !.op = "disconnect", !.pc = "loop",
                                         !.todo = snapshot]
       IN  /\ handlers' = [handlers EXCEPT ![sid] = h]
           /\ rooms' = leave_rooms(sid, h)
    /\ UNCHANGED <<prefs_vars, device_vars, session_vars, gate_vars, perm_vars,
                   sqlite_sequence, now, active_sessions, heap, nsets, inbox, nsaves>>

\* if request.sid in sessions: sessions.remove(request.sid)
DisconnectRemove(sid) ==
    /\ handlers[sid].pc = "loop"
    /\ LET h == handlers[sid]
           set_object == h.todo[1][2]
       IN  IF sid \in heap[set_object]
           THEN /\ heap' = [heap EXCEPT ![set_object] = @ \ {sid}]
                /\ handlers' = [handlers EXCEPT ![sid].pc = "len"]
                /\ rooms' = rooms
           ELSE /\ heap' = heap
                /\ handlers' = [handlers EXCEPT ![sid] = next_room(h, "")]
                /\ rooms' = leave_rooms(sid, next_room(h, ""))
    /\ UNCHANGED <<prefs_vars, device_vars, session_vars, gate_vars, perm_vars,
                   sqlite_sequence, now, conns, active_sessions, nsets, inbox, nsaves>>

\* remaining_count = len(sessions) and the session_count_updated event
DisconnectCount(sid) ==
    /\ handlers[sid].pc = "len"
    /\ LET h == handlers[sid]
           user_id == h.todo[1][1]
           remaining_count == Cardinality(heap[h.todo[1][2]])
           updated == [NoMessage EXCEPT !.event = "session_count_updated",
                                        !.user_id = user_id,
                                        !.session_count = remaining_count]
       IN  IF remaining_count > 0
           THEN /\ inbox' = emit_to_room(inbox, user_id, updated)
                /\ handlers' = [handlers EXCEPT ![sid] = next_room(h, "")]
                /\ rooms' = leave_rooms(sid, next_room(h, ""))
           ELSE /\ inbox' = inbox
                /\ handlers' = [handlers EXCEPT ![sid].pc = "del"]
                /\ rooms' = rooms
    /\ UNCHANGED <<prefs_vars, device_vars, session_vars, gate_vars, perm_vars,
                   sqlite_sequence, now, conns, active_sessions, heap, nsets, nsaves>>

\* del active_sessions[room]; KeyError when the key is gone
DisconnectDelete(sid) ==
    /\ handlers[sid].pc = "del"
    /\ LET h == handlers[sid]
           user_id == h.todo[1][1]
           error == IF active_sessions[user_id] = 0 THEN "KeyError" ELSE ""
       IN  /\ active_sessions' = [active_sessions EXCEPT ![user_id] = 0]
           /\ handlers' = [handlers EXCEPT ![sid] = next_room(h, error)]
           /\ rooms' = leave_rooms(sid, next_room(h, error))
    /\ UNCHANGED <<prefs_vars, device_vars, session_vars, gate_vars, perm_vars,
                   sqlite_sequence, now, conns, heap, nsets, inbox, nsaves>>

\* The client of a connection saves a document for its user (PUT
\* /preferences without a version) and holds what it will announce: the
\* document it sent, the version of the response, its own session id.
ClientSave(sid) ==
    /\ conns[sid].live
    /\ conns[sid].pending = NoPayload
    /\ nsaves < MaxSaves
    /\ \E preferences \in Documents :
        LET user_id == conns[sid].user_id
            row == user_preferences[user_id]
            new_version == IF row.exists THEN row.version + 1 ELSE 1
        IN  /\ user_preferences' = [user_preferences EXCEPT ![user_id] =
                    [exists |-> TRUE, preferences |-> json_dumps(preferences),
                     version |-> new_version, updated_at |-> CURRENT_TIMESTAMP]]
            /\ conns' = [conns EXCEPT ![sid].pending =
                    [user_id |-> user_id, preferences |-> preferences,
                     version |-> new_version,
                     origin_session_id |-> session_id(sid)]]
    /\ nsaves' = nsaves + 1
    /\ UNCHANGED <<calls, ncalls, wcount, device_vars, session_vars, gate_vars,
                   perm_vars, sqlite_sequence, now, rooms, active_sessions, heap,
                   nsets, handlers, inbox>>

\* broadcast_preferences, sent by the client after its save
handle_broadcast_preferences(sid) ==
    /\ conns[sid].live
    /\ conns[sid].pending # NoPayload
    /\ LET data == conns[sid].pending
           session_count == Cardinality(get_sessions(data.user_id))
           message == [NoMessage EXCEPT !.event = "preferences_updated",
                                        !.user_id = data.user_id,
                                        !.payload = data]
       IN  inbox' = IF session_count <= 1 THEN inbox
                    ELSE emit_to_room(inbox, data.user_id, message)
    /\ conns' = [conns EXCEPT ![sid].pending = NoPayload]
    /\ UNCHANGED <<prefs_vars, device_vars, session_vars, gate_vars, perm_vars,
                   sqlite_sequence, now, rooms, active_sessions, heap, nsets,
                   handlers, nsaves>>

\* the channel before any client has connected: no connection, no room,
\* no set object, no handler
NoSockets ==
    /\ conns = <<>>
    /\ rooms = <<>>
    /\ active_sessions = <<>>
    /\ heap = <<>>
    /\ nsets = 0
    /\ handlers = <<>>
    /\ inbox = <<>>
    /\ nsaves = 0

NoSide ==
    /\ NoPerms
    /\ NoSockets

-----------------------------------------------------------------------------
(* Specifications *)

\* A part of the server that a specification leaves aside holds nothing: its
\* tables have no rows and it has no worker.

\* no preference row, no preference call
NoPrefs ==
    /\ user_preferences = <<>>
    /\ calls = <<>>
    /\ ncalls = 0
    /\ wcount = <<>>

\* no device code, no device request
NoDevices ==
    /\ device_codes = <<>>
    /\ device_sessions = {}
    /\ reqs = <<>>
    /\ nreqs = 0
    /\ pair_log = <<>>

\* no session, no session request
NoLogins ==
    /\ sessions = {}
    /\ sqlite_sequence = [sessions |-> 0, device_sessions |-> 0]
    /\ auth_reqs = <<>>
    /\ nauth = 0

\* no rate-limit counter, no decorated endpoint, no check
NoRates ==
    /\ rate_limits = <<>>
    /\ limits = <<>>
    /\ rate_reqs = <<>>
    /\ nrate = 0

\* no widget grant, no group
NoWidgets ==
    /\ widget_permissions = <<>>
    /\ group_widget_permissions = <<>>
    /\ group_members = {}
    /\ access = NoAccess

NoGates == NoRates /\ NoWidgets

InitPrefs ==
    /\ user_preferences \in [UserIds -> InitialRows]
    /\ user_preferences[2] = NoRow
    /\ now = 0
    /\ calls = [w \in Workers |-> Idle]
    /\ ncalls = 0
    /\ wcount = [u \in UserIds |-> user_preferences[u].version]
    /\ users = InitialUsers
    /\ NoDevices
    /\ tz = 0
    /\ NoLogins
    /\ NoGates
    /\ NoSide

NextPrefs ==
    \/ \E w \in Workers : CallGet(w)
    \/ \E w \in Workers : CallSet(w)
    \/ \E w \in Workers : CallUpdate(w)
    \/ \E w \in Workers : CallDelete(w)
    \/ \E w \in Workers : Get(w)
    \/ \E w \in Workers : UpdateGet(w)
    \/ \E w \in Workers : DeleteGet(w)
    \/ \E w \in Workers : SetRead(w)
    \/ \E w \in Workers : SetWrite(w)
    \/ \E w \in Workers : Return(w)

SpecPrefs == InitPrefs /\ [][NextPrefs]_vars

InitDevice ==
    /\ NoPrefs
    /\ now = 0
    /\ users = InitialUsers
    /\ device_codes = [id \in CodeIds |-> NoCode]
    /\ device_sessions = {}
    /\ tz \in TimeZones
    /\ reqs = [w \in DeviceWorkers |-> IdleReq]
    /\ nreqs = 0
    /\ pair_log = [id \in CodeIds |-> <<>>]
    /\ NoLogins
    /\ NoGates
    /\ NoSide

NextDevice ==
    \/ Tick
    \/ request_device_code
    \/ cleanup_expired_device_codes
    \/ \E w \in DeviceWorkers : PairLookup(w)
    \/ \E w \in DeviceWorkers : PairUpdate(w)
    \/ \E w \in DeviceWorkers : PollLookup(w)
    \/ \E w \in DeviceWorkers : PollUser(w)
    \/ \E w \in DeviceWorkers : PollCreateSession(w)

SpecDevice == InitDevice /\ [][NextDevice]_vars

\* A server with a device code that user 2 has just paired
InitSession ==
    /\ NoPrefs
    /\ now = 0
    /\ users = InitialUsers
    /\ tz = 0
    /\ LET u == 2 IN
        /\ device_codes = [id \in CodeIds |->
                [create_device_code(id) EXCEPT !.user_id = u,
                                               !.paired_at = CURRENT_TIMESTAMP]]
        /\ pair_log = [id \in CodeIds |-> <<u>>]
        /\ device_sessions \in
                {{}, {[id |-> 1, device_code_id |-> 1, user_id |-> u,
                       refresh_token |-> generate_refresh_token(u),
                       expires_at |-> datetime_now + timedelta_days(DEVICE_SESSION_DAYS)]}}
    /\ reqs = [w \in DeviceWorkers |-> IdleReq]
    /\ nreqs = MaxReqs
    /\ sessions = {}
    /\ sqlite_sequence = [sessions |-> 0, device_sessions |-> Cardinality(device_sessions)]
    /\ auth_reqs = [w \in AuthWorkers |-> IdleAuth]
    /\ nauth = 0
    /\ NoGates
    /\ NoSide

NextSession ==
    \/ TickSecond
    \/ TickDays
    \/ cleanup_system
    \/ \E w \in AuthWorkers : get_current_user(w)
    \/ \E w \in AuthWorkers : RefreshLookup(w)
    \/ \E w \in AuthWorkers : RefreshUser(w)
    \/ \E w \in AuthWorkers : LoginUser(w)
    \/ \E w \in AuthWorkers : LoginCreateSession(w)
    \/ \E w \in AuthWorkers : LoginCleanup(w)
    \/ \E w \in AuthWorkers : Logout(w)
    \/ \E w \in AuthWorkers : delete_session_by_id(w)
    \/ \E w \in AuthWorkers : delete_device_session(w)
    \/ \E w \in AuthWorkers : admin_delete_session(w)
    \/ \E w \in AuthWorkers : revoke_all_sessions(w)
    \/ \E w \in AuthWorkers : ToggleRead(w)
    \/ \E w \in AuthWorkers : ToggleWrite(w)
    \/ \E w \in AuthWorkers : ToggleSessions(w)

SpecSession == InitSession /\ [][NextSession]_vars

\* A server whose rate_limits table is empty, in some time zone, with
\* some max_requests on each endpoint
InitRate ==
    /\ NoPrefs
    /\ now = 0
    /\ users = InitialUsers
    /\ NoDevices
    /\ tz \in TimeZones
    /\ NoLogins
    /\ rate_limits = [k \in RateKeys |-> NoRate]
    /\ limits \in [Endpoints -> 1..MaxLimit]
    /\ rate_reqs = [w \in RateWorkers |-> IdleRate]
    /\ nrate = 0
    /\ NoWidgets
    /\ NoSide

NextRate ==
    \/ TickWindow
    \/ \E w \in RateWorkers : RateRead(w)
    \/ \E w \in RateWorkers : RateWrite(w)

SpecRate == InitRate /\ [][NextRate]_vars

\* Permission tables as grants and group memberships have left them: any
\* rows on the widget "sales" (those of group 2 lasting), a lasting
\* admin-level grant for every user and group on "weather"; the admin is at
\* most in group 1
InitWidget ==
    /\ NoPrefs
    /\ now \in 0..MaxSeconds
    /\ users = InitialUsers
    /\ NoDevices
    /\ tz = 0
    /\ NoLogins
    /\ NoRates
    /\ \E d1 \in {NoGrant, [NoGrant EXCEPT !.exists = TRUE, !.access_level = "view"]},
          d2 \in Grants :
        widget_permissions =
            [k \in UserIds \X Widgets |->
                IF k[2] = "weather"
                THEN [NoGrant EXCEPT !.exists = TRUE, !.access_level = "admin"]
                ELSE IF k[1] = 1 THEN d1 ELSE d2]
    /\ \E g \in {f \in [Groups -> Grants] : f[2].expires_at = None} :
        group_widget_permissions =
            [k \in Groups \X Widgets |->
                IF k[2] = "weather"
                THEN [NoGrant EXCEPT !.exists = TRUE, !.access_level = "admin"]
                ELSE g[k[1]]]
    /\ group_members \in SUBSET (Groups \X UserIds)
    /\ <<2, 1>> \notin group_members
    /\ access = NoAccess
    /\ NoSide

NextWidget ==
    \/ CheckAccess

SpecWidget == InitWidget /\ [][NextWidget]_vars

\* no preference call, no device request, no session request; UTC
NoRequests == NoPrefs /\ NoDevices /\ NoLogins /\ tz = 0

\* A database with no flat permission yet and with the role_permissions
\* rows of its deployment (no route writes that table)
InitPerm ==
    /\ NoRequests
    /\ now = 0
    /\ users = InitialUsers
    /\ NoGates
    /\ flat_permissions = {}
    /\ role_permissions \in SUBSET (Roles \X PermissionNames)
    /\ allowed = NoAllowed
    /\ granted = NoGranted
    /\ NoSockets

NextPerm ==
    \/ HasPermission
    \/ RequirePermission
    \/ \E user_id \in UserIds, permission \in PermissionNames :
        \E granted_by \in {u \in UserIds : users[u].role = "admin"} :
            grant_permission(user_id, permission, granted_by)
    \/ \E user_id \in UserIds, permission \in PermissionNames :
            revoke_permission(user_id, permission)

SpecPerm == InitPerm /\ [][NextPerm]_vars

\* Three connected clients, none of them in a room yet: all of user 1, or
\* the last one of user 2
InitSocket ==
    /\ user_preferences = [u \in UserIds |-> NoRow]
    /\ calls = <<>>
    /\ ncalls = 0
    /\ wcount = [u \in UserIds |-> 0]
    /\ NoDevices
    /\ NoLogins
    /\ tz = 0
    /\ now = 0
    /\ users = InitialUsers
    /\ NoGates
    /\ NoPerms
    /\ \E owner \in {f \in [Sids -> UserIds] :
                        f[2] = 1 /\ \A i, j \in Sids : i < j => f[i] <= f[j]} :
        conns = [sid \in Sids |->
                    [user_id |-> owner[sid], live |-> TRUE, joins |-> 0,
                     pending |-> NoPayload]]
    /\ rooms = [u \in UserIds |-> {}]
    /\ active_sessions = [u \in UserIds |-> 0]
    /\ heap = [o \in ObjIds |-> {}]
    /\ nsets = 0
    /\ handlers = [sid \in Sids |-> IdleHandler]
    /\ inbox = [sid \in Sids |-> NoMessage]
    /\ nsaves = 0

\* the steps of the handlers that are running
HandlerStep ==
    \/ \E sid \in Sids : JoinTrack(sid)
    \/ \E sid \in Sids : JoinAdd(sid)
    \/ \E sid \in Sids : JoinCount(sid)
    \/ \E sid \in Sids : DisconnectRemove(sid)
    \/ \E sid \in Sids : DisconnectCount(sid)
    \/ \E sid \in Sids : DisconnectDelete(sid)

\* no handler is running
Quiet == \A sid \in Sids : handlers[sid].pc = "idle"

\* another handler may start; in the interleaved runs a connection joins
\* one room
Room == Cardinality({sid \in Sids : handlers[sid].pc # "idle"}) < MaxRunning

NextSocket ==
    \/ Room /\ \E sid \in Sids, user_id \in UserIds :
            conns[sid].joins = 0 /\ JoinRoom(sid, user_id)
    \/ Room /\ \E sid \in Sids : DisconnectStart(sid)
    \/ HandlerStep
    \/ \E sid \in Sids : ClientSave(sid)
    \/ \E sid \in Sids : handle_broadcast_preferences(sid)

SpecSocket == InitSocket /\ [][NextSocket]_vars

\* the same channel with its events handled one at a time
NextRegistry ==
    \/ Quiet /\ \E sid \in Sids, user_id \in UserIds : JoinRoom(sid, user_id)
    \/ Quiet /\ \E sid \in Sids : DisconnectStart(sid)
    \/ HandlerStep

SpecRegistry == InitSocket /\ [][NextRegistry]_vars

\* the workers that serve the admin routes
AdminWorkers == {1, 2}

\* A server whose first user is an active admin, the second user being of
\* either role, active or not; nobody is logged in
InitAdmin ==
    /\ NoPrefs
    /\ now = 0
    /\ users \in {[InitialUsers EXCEPT ![2].role = role, ![2].is_active = is_active] :
                    role \in Roles, is_active \in BOOLEAN}
    /\ NoDevices
    /\ tz = 0
    /\ sessions = {}
    /\ sqlite_sequence = [sessions |-> 0, device_sessions |-> 0]
    /\ auth_reqs = [w \in AdminWorkers |-> IdleAuth]
    /\ nauth = 0
    /\ NoGates
    /\ NoSide

NextAdmin ==
    \/ \E w \in AdminWorkers : RoleRead(w)
    \/ \E w \in AdminWorkers : RoleWrite(w)
    \/ \E w \in AdminWorkers : ToggleRead(w)
    \/ \E w \in AdminWorkers : ToggleWrite(w)
    \/ \E w \in AdminWorkers : ToggleSessions(w)

SpecAdmin == InitAdmin /\ [][NextAdmin]_vars

\* A server whose users table is empty, as init_db leaves it
InitCreate ==
    /\ NoPrefs
    /\ now = 0
    /\ users = <<>>
    /\ NoDevices
    /\ tz = 0
    /\ sessions = {}
    /\ sqlite_sequence = [sessions |-> 0, device_sessions |-> 0]
    /\ auth_reqs = [w \in AdminWorkers |-> IdleAuth]
    /\ nauth = 0
    /\ NoGates
    /\ NoSide

NextCreate ==
    \/ \E w \in AdminWorkers : CreateCount(w)
    \/ \E w \in AdminWorkers : CreateInsert(w)
    \/ \E w \in AdminWorkers : CreateUpdate(w)
    \/ \E w \in AdminWorkers : CreateSelect(w)

SpecCreate == InitCreate /\ [][NextCreate]_vars

\* the users, the group, the widget, the levels and the flat permission of
\* the grants, and the admins who grant
GrantUsers == {2}
GrantGroups == {1}
GrantWidgets == {"sales"}
GrantLevels == {"view", "edit"}
GrantPermissions == {"view_reports"}
Grantors == UserIds

\* Empty permission tables
InitGrant ==
    /\ NoRequests
    /\ now = 0
    /\ users = InitialUsers
    /\ NoRates
    /\ widget_permissions = [k \in UserIds \X Widgets |-> NoGrant]
    /\ group_widget_permissions = [k \in Groups \X Widgets |-> NoGrant]
    /\ group_members = {}
    /\ access = NoAccess
    /\ NoSide

NextGrant ==
    \/ \E user_id \in GrantUsers, widget_id \in GrantWidgets,
          access_level \in GrantLevels, granted_by \in Grantors,
          expires_at \in ExpiryTimes :
            grant_widget_permission(user_id, widget_id, access_level, granted_by, expires_at)
    \/ \E group_id \in GrantGroups, widget_id \in GrantWidgets,
          access_level \in GrantLevels, granted_by \in Grantors,
          expires_at \in ExpiryTimes :
            grant_group_widget_permission(group_id, widget_id, access_level, granted_by, expires_at)
    \/ \E user_ids \in {GrantUsers, UserIds}, access_level \in GrantLevels,
          granted_by \in Grantors :
            bulk_grant_widget_permissions(user_ids, GrantWidgets, access_level, granted_by)
    \/ \E user_id \in GrantUsers, permission \in GrantPermissions,
          granted_by \in Grantors :
            grant_permission(user_id, permission, granted_by)
    \/ \E user_id \in GrantUsers, permission \in GrantPermissions :
            revoke_permission(user_id, permission)

SpecGrant == InitGrant /\ [][NextGrant]_vars

-----------------------------------------------------------------------------
(* Properties of the preference store *)

Done(w, op) == calls[w].pc = "done" /\ calls[w].op = op
Success(w) == calls[w].ret.kind = "version"
Conflict(w) == calls[w].ret.kind = "none"
Stored(u) == get_user_preferences(u).preferences

\* C1: of two set calls for one user that both pass expectedVersion = v and
\* both find the document stored (one of them at version v, so that it
\* succeeds), exactly one returns v+1 and the other returns Conflict, and
\* the stored version ends at v+1.
C1_ConcurrentSetsOneWinner ==
    \A w1, w2 \in Workers :
        LET c1 == calls[w1]
            c2 == calls[w2]
            v == c1.expected_version
        IN (/\ w1 # w2 /\ Done(w1, "set") /\ Done(w2, "set")
            /\ c1.user_id = c2.user_id
            /\ v >= 1 /\ c2.expected_version = v
            /\ c1.found /\ c2.found /\ Success(w1))
           => /\ c1.ret.version = v + 1
              /\ Conflict(w2)
              /\ user_preferences[c1.user_id].version = v + 1

\* C2: every successful set, update or delete returns the version stored
\* immediately before its write plus 1 (1 when there was no document), so
\* the stored version of a user is the number of successful writes.
C2_VersionCountsWrites ==
    /\ \A w \in Workers :
          (calls[w].pc = "done" /\ calls[w].op \in {"set", "update", "delete"}
              /\ Success(w))
          => calls[w].ret.version = calls[w].over + 1
    /\ \A u \in UserIds : user_preferences[u].version = wcount[u]

\* C3: a set whose expectedVersion differs from the version its read finds
\* returns Conflict, and the step leaves the row (document, version,
\* updated_at) as it was; the call ends there.
C3_StaleSetIsConflict ==
    [][\A w \in Workers :
          LET c == calls[w]
              row == user_preferences[c.user_id]
          IN (/\ c.pc = "set_read" /\ calls'[w].pc # "set_read"
              /\ c.op = "set" /\ row.exists
              /\ c.expected_version # None /\ c.expected_version # row.version)
             => /\ user_preferences' = user_preferences
                /\ calls'[w].pc = "done"
                /\ calls'[w].ret.kind = "none"]_vars

C3_Witness ==
    \E w \in Workers :
        /\ Done(w, "set") /\ Conflict(w)
        /\ user_preferences[calls[w].user_id].exists
        /\ user_preferences[calls[w].user_id].version # calls[w].expected_version
        /\ Stored(calls[w].user_id) # calls[w].preferences

\* C4: a set for a user that has no row, with an expectedVersion other than
\* 0, returns Conflict (and so creates no document).
C4_AbsentUserConflict ==
    \A w \in Workers :
        (/\ Done(w, "set") /\ ~calls[w].found
         /\ calls[w].expected_version \notin {None, 0})
        => Conflict(w)

\* C5: a get that follows a successful set(u, doc, v) with no write between
\* them returns doc and the version set returned, which is v+1 when v was
\* the stored version (0 for no document); a get of a user that never had
\* a document returns {} with version 0.
C5_SetThenGet ==
    /\ \A ws, wg \in Workers :
          (/\ Done(ws, "set") /\ Success(ws) /\ Done(wg, "get")
           /\ calls[wg].user_id = calls[ws].user_id
           /\ calls[wg].get_seq = calls[ws].write_seq)
          => /\ calls[wg].ret.preferences = calls[ws].preferences
             /\ calls[wg].ret.version = calls[ws].ret.version
             /\ (calls[ws].expected_version = calls[ws].over
                    => calls[wg].ret.version = calls[ws].expected_version + 1)
    /\ \A wg \in Workers :
          (Done(wg, "get") /\ calls[wg].get_seq = 0)
          => /\ calls[wg].ret.preferences = EmptyDict
             /\ calls[wg].ret.version = 0
             /\ calls[wg].ret.updated_at = None

C5_Witness ==
    \E ws, wg \in Workers :
        /\ Done(ws, "set") /\ Success(ws) /\ Done(wg, "get")
        /\ calls[wg].user_id = calls[ws].user_id
        /\ calls[wg].get_seq = calls[ws].write_seq
        /\ calls[ws].expected_version = 1 /\ calls[ws].over = 1
        /\ calls[wg].ret.version = 2
        /\ calls[wg].ret.preferences # EmptyDict

\* r is base with updates merged in: a key of updates whose stored and new
\* values are both objects is merged in the same way, any other key of
\* updates carries the new value, every other key keeps the stored value.
RECURSIVE IsMergeOf(_, _, _)
IsMergeOf(r, base, updates) ==
    /\ DOMAIN r = DOMAIN base \cup DOMAIN updates
    /\ \A key \in DOMAIN r :
          IF key \notin DOMAIN updates THEN r[key] = base[key]
          ELSE IF key \in DOMAIN base /\ base[key].k = "obj" /\ updates[key].k = "obj"
               THEN r[key].k = "obj" /\ IsMergeOf(r[key].v, base[key].v, updates[key].v)
               ELSE r[key] = updates[key]

\* C6: after a successful update the stored document is the recursive merge
\* of the partial document into the document the update loaded; merging
\* {"a": {"x": 1}} into {"a": {"y": 2}} stores {"a": {"x": 1, "y": 2}}.
C6_UpdateStoresMerge ==
    \A w \in Workers :
        LET c == calls[w] IN
        (Done(w, "update") /\ Success(w) /\ c.write_seq = wcount[c.user_id])
        => /\ IsMergeOf(Stored(c.user_id).v, c.loaded.v, c.arg.v)
           /\ (/\ c.loaded = Obj(ka :> Obj(ky :> Num(2)))
               /\ c.arg = Obj(ka :> Obj(kx :> Num(1))))
              => Stored(c.user_id) = Obj(ka :> Obj(kx :> Num(1) @@ ky :> Num(2)))

\* An update that merged an object into an object, replaced an array and
\* kept a key it did not mention.
C6_Witness ==
    \E w \in Workers :
        LET c == calls[w] IN
        /\ Done(w, "update") /\ Success(w) /\ c.write_seq = wcount[c.user_id]
        /\ c.arg = Obj(ka :> Obj(ky :> Obj(kx :> Num(1))) @@ kb :> Arr(<<Num(2)>>))
        /\ c.loaded = Obj(ka :> Obj(kx :> Num(1) @@ ky :> Num(2))
                          @@ kb :> Arr(<<Num(1)>>) @@ k_a_x :> Num(2))
        /\ Stored(c.user_id) = Obj(ka :> Obj(kx :> Num(1) @@ ky :> Obj(kx :> Num(1)))
                                   @@ kb :> Arr(<<Num(2)>>) @@ k_a_x :> Num(2))

\* The paths into a dict: the sequences of keys that lead to a value.
RECURSIVE PathsOf(_)
PathsOf(obj) ==
    UNION {{<<key>>} \cup (IF obj[key].k = "obj"
                           THEN {<<key>> \o p : p \in PathsOf(obj[key].v)}
                           ELSE {}) : key \in DOMAIN obj}

RECURSIVE HasPath(_, _)
HasPath(obj, p) ==
    /\ p[1] \in DOMAIN obj
    /\ \/ Len(p) = 1
       \/ obj[p[1]].k = "obj" /\ HasPath(obj[p[1]].v, Tail(p))

RECURSIVE AtPath(_, _)
AtPath(obj, p) == IF Len(p) = 1 THEN obj[p[1]] ELSE AtPath(obj[p[1]].v, Tail(p))

IsPrefix(q, p) == Len(q) <= Len(p) /\ SubSeq(p, 1, Len(q)) = q

\* The paths the keys of a delete address.
Addressed(preference_keys) ==
    {split(key_list(preference_keys)[i]) : i \in 1..Len(key_list(preference_keys))}

\* C7: after a delete that wrote, the stored document holds exactly the
\* fields of the loaded document that no given path addresses (a field goes
\* with everything below it), each with its value; and a delete returns a
\* version, whether or not its paths exist, unless another writer committed
\* for the user after the delete loaded the document.
C7_DeleteRemovesAddressed ==
    \A w \in Workers :
        LET c == calls[w]
            r == Stored(c.user_id).v
            d == c.loaded.v
        IN Done(w, "delete")
           => /\ ~Success(w) => wcount[c.user_id] > c.get_seq
              /\ (Success(w) /\ c.write_seq = wcount[c.user_id])
                 => \A p \in PathsOf(r) \cup PathsOf(d) :
                       /\ HasPath(r, p) <=>
                            (HasPath(d, p) /\ \A q \in Addressed(c.arg) : ~IsPrefix(q, p))
                       /\ HasPath(r, p) =>
                            /\ AtPath(r, p).k = AtPath(d, p).k
                            /\ AtPath(d, p).k # "obj" => AtPath(r, p) = AtPath(d, p)

\* A delete of ["b.x", "x.y"] (b is an array, x is missing) that returned a
\* version and left the document as it was.
C7_Witness ==
    \E w \in Workers :
        LET c == calls[w] IN
        /\ Done(w, "delete") /\ Success(w) /\ c.write_seq = wcount[c.user_id]
        /\ c.arg = [k |-> "list", v |-> <<k_b_x, k_x_y>>]
        /\ kb \in DOMAIN c.loaded.v
        /\ Stored(c.user_id) = c.loaded
        /\ c.ret.version = c.over + 1

-----------------------------------------------------------------------------
(* Properties of device pairing *)

DonePoll(w) == reqs[w].op = "poll" /\ reqs[w].pc = "done"
DonePair(w) == reqs[w].op = "pair" /\ reqs[w].pc = "done"
SessionsOf(id) == {s \in device_sessions : s.device_code_id = id}

\* C8: for every device code, once a poll has returned authorized and
\* created the DeviceSession, no later poll of that code is authorized
\* again: at most one DeviceSession and one refresh token exist per device
\* code, and an authorized poll's session is the only one of its code.
C8_OneSessionPerDeviceCode ==
    /\ \A id \in CodeIds :
        /\ Cardinality(SessionsOf(id)) <= 1
        /\ Cardinality({s.refresh_token : s \in SessionsOf(id)}) <= 1
    /\ \A w \in DeviceWorkers :
        DonePoll(w) /\ reqs[w].resp = "authorized"
            => \A s \in SessionsOf(reqs[w].code) :
                    s.refresh_token = reqs[w].refresh_token

\* the step in which worker w takes a new pair or poll request
Starts(w, op) == Free(w) /\ nreqs' = nreqs + 1 /\ reqs'[w].op = op

C10_OnePairingWins ==
    \A id \in CodeIds :
        /\ Len(pair_log[id]) <= 1
        /\ Len(pair_log[id]) = 1
            => /\ device_codes[id].exists
               /\ device_codes[id].user_id = pair_log[id][1]
        /\ \A w \in DeviceWorkers :
            DonePair(w) /\ reqs[w].code = id /\ reqs[w].status = 200
                => pair_log[id] = <<reqs[w].user_id>>

\* two users' pair requests for one code both passed the route's checks
\* while the code was unpaired; one reported success, the other 500
C10_Witness ==
    \E w1, w2 \in DeviceWorkers :
        /\ DonePair(w1) /\ DonePair(w2)
        /\ reqs[w1].code = reqs[w2].code
        /\ reqs[w1].user_id # reqs[w2].user_id
        /\ reqs[w1].status = 200
        /\ reqs[w2].status = 500
        /\ reqs[w2].resp = "Failed to pair device"
        /\ now < device_codes[reqs[w1].code].expires_at
        /\ device_codes[reqs[w1].code].user_id = reqs[w1].user_id

C12_ExpiredPollIsExpired ==
    [][\A w \in DeviceWorkers :
        LET row == device_codes[reqs'[w].code]
        IN  (/\ PollLookup(w)
             /\ row.id # 0
             /\ now > row.created_at + timedelta_minutes(DEVICE_CODE_MINUTES))
            => /\ reqs'[w].pc = "done"
               /\ reqs'[w].resp = "expired"]_vars

\* C13: an expired code never becomes paired: every paired code was paired
\* no later than its lifetime after it was issued, and a pair request that
\* reported success did so for a code paired within its lifetime.
C13_ExpiredCodeNeverPaired ==
    \A id \in CodeIds :
        device_codes[id].exists /\ device_codes[id].user_id # None
            => device_codes[id].paired_at
                    <= device_codes[id].created_at
                            + timedelta_minutes(DEVICE_CODE_MINUTES)


-----------------------------------------------------------------------------
(* Properties of sessions and tokens *)

\* the Session and DeviceSession rows that hold a refresh token
Holding(token) ==
    {s \in sessions : s.refresh_token = token} \cup
    {s \in device_sessions : s.refresh_token = token}

\* the step in which free worker w takes up a request of kind op
Takes(w, op) ==
    /\ auth_reqs[w].pc \in {"idle", "done"}
    /\ auth_reqs'[w] # auth_reqs[w]
    /\ auth_reqs'[w].op = op

\* the step in which worker w leaves position pc of its handler
Leaves(w, pc) ==
    /\ auth_reqs[w].pc = pc
    /\ auth_reqs'[w] # auth_reqs[w]

C15_TokensOnlyInTheirContext ==
    [][\A w \in AuthWorkers :
        LET r == auth_reqs'[w]
            token == r.presented.token
            bad == ~r.presented.signed \/ now > token_exp(token)
        IN  /\ (Takes(w, "bearer") /\ (token.type # "access" \/ bad))
                    => /\ r.pc = "done" /\ r.status = 401
                       /\ r.resp = "Authentication required"
                       /\ r.access_token = NoToken
            /\ (Takes(w, "refresh") /\ (token.type # "refresh" \/ bad))
                    => /\ r.pc = "done" /\ r.status = 401
                       /\ r.resp = "Invalid refresh token"
                       /\ r.access_token = NoToken]_vars

\* a well-signed refresh token of an active user, whose row exists, was
\* presented as a bearer token before it expired and was refused
C15_Witness ==
    \E w \in AuthWorkers :
        LET r == auth_reqs[w]
        IN  /\ r.pc = "done" /\ r.op = "bearer"
            /\ r.presented.signed
            /\ r.presented.token.type = "refresh"
            /\ now < token_exp(r.presented.token)
            /\ users[r.presented.token.user_id].is_active
            /\ Holding(r.presented.token) # {}
            /\ r.status = 401 /\ r.resp = "Authentication required"


-----------------------------------------------------------------------------
(* Properties of the rate limiter *)

\* the step in which worker w starts a rate-limit check
Checks(w) == FreeRate(w) /\ nrate' = nrate + 1

\* the step in which worker w makes the write of its check
Writes(w) == rate_reqs[w].pc = "write" /\ rate_reqs'[w].pc = "done"

\* the window that the row opened is still running: window_start is not
\* older than the window's length
InWindow(row) ==
    /\ row.exists
    /\ CURRENT_TIMESTAMP - row.window_start <= timedelta_minutes(WINDOW_MINUTES)

\* C16: within one window the first N requests of an (identity, endpoint)
\* are allowed and every further one is denied, a denial leaving the counter
\* and window_start as they were.  Step by step: the first request creates
\* the counter at 1 with window_start now; a request inside the window that
\* finds count < N is allowed and adds one to the counter, keeping
\* window_start; one that finds count >= N is answered 429 and writes nothing.
C16_FirstNAllowedInWindow ==
    [][\A w \in RateWorkers :
        LET r == rate_reqs'[w]
            k == <<r.identifier, r.endpoint>>
            old == rate_reqs[w]
            ko == <<old.identifier, old.endpoint>>
        IN  /\ Checks(w) =>
                /\ ~rate_limits[k].exists
                        => r.pc = "write" /\ r.branch = "insert"
                /\ (InWindow(rate_limits[k]) /\ rate_limits[k].count < limits[r.endpoint])
                        => r.pc = "write" /\ r.branch = "increment"
                /\ (InWindow(rate_limits[k]) /\ rate_limits[k].count >= limits[r.endpoint])
                        => /\ r.pc = "done" /\ r.status = 429
                           /\ rate_limits' = rate_limits
            /\ (Writes(w) /\ old.branch = "insert" /\ ~rate_limits[ko].exists)
                    => /\ r.status = 200
                       /\ rate_limits' = [rate_limits EXCEPT ![ko] =
                                [exists |-> TRUE, count |-> 1, window_start |-> now]]
            /\ (Writes(w) /\ old.branch = "increment")
                    => /\ r.status = 200
                       /\ rate_limits' = [rate_limits EXCEPT ![ko].count = @ + 1]]_vars

\* C17: the first request made after window_start has become older than
\* the window is allowed and sets the counter to 1 with a new window_start,
\* also when the counter had reached max; a request made before that never
\* resets the counter.
C17_ResetOnlyAfterTheWindow ==
    [][\A w \in RateWorkers :
        LET r == rate_reqs'[w]
            k == <<r.identifier, r.endpoint>>
            old == rate_reqs[w]
            ko == <<old.identifier, old.endpoint>>
        IN  /\ Checks(w) =>
                /\ (rate_limits[k].exists /\ ~InWindow(rate_limits[k]))
                        => r.pc = "write" /\ r.branch = "reset"
                /\ InWindow(rate_limits[k]) => r.branch # "reset"
            /\ (Writes(w) /\ old.branch = "reset")
                    => /\ r.status = 200
                       /\ rate_limits' = [rate_limits EXCEPT
                                ![ko].count = 1, ![ko].window_start = now]]_vars


-----------------------------------------------------------------------------
(* Properties of the widget permissions *)

\* a check_widget_access call has been made
Checked == access.user_id # None

\* the user's unexpired direct grant on the widget of the call, if any
DirectGrant == widget_permissions[<<access.user_id, access.widget_id>>]

\* the levels of the unexpired group grants that reach the user of the call
GroupLevels ==
    {group_widget_permissions[<<g, access.widget_id>>].access_level :
        g \in {h \in Groups :
                /\ <<h, access.user_id>> \in group_members
                /\ group_widget_permissions[<<h, access.widget_id>>].exists
                /\ \/ group_widget_permissions[<<h, access.widget_id>>].expires_at = None
                   \/ group_widget_permissions[<<h, access.widget_id>>].expires_at > now}}

HasDirect ==
    DirectGrant.exists /\ (DirectGrant.expires_at = None \/ DirectGrant.expires_at > now)

Rank(level) == IF level = "admin" THEN 3 ELSE IF level = "edit" THEN 2
               ELSE IF level = "view" THEN 1 ELSE 0

\* C18: check_widget_access is true for every user whose role is admin,
\* whatever the widget, the required level and the grants.
C18_AdminAlwaysHasAccess ==
    (Checked /\ users[access.user_id].role = "admin") => access.result = TRUE

\* the admin asked for admin level on a widget on which no unexpired grant
\* reaches them, and got access
C18_Witness ==
    /\ Checked
    /\ users[access.user_id].role = "admin"
    /\ access.required_level = "admin"
    /\ ~HasDirect /\ GroupLevels = {}
    /\ access.result = TRUE

\* the level the permission model gives a non-admin on a widget: the direct
\* grant where there is one, else the highest group grant, else none
EffectiveRank ==
    IF HasDirect THEN Rank(DirectGrant.access_level)
    ELSE IF GroupLevels = {} THEN 0
    ELSE CHOOSE n \in {Rank(l) : l \in GroupLevels} :
            \A l \in GroupLevels : Rank(l) <= n

\* C19: for a user of role user the result is (effective level >= required
\* level) under view < edit < admin; so with required level edit it is true
\* for a user whose grant on the widget is an unexpired admin-level group
\* grant, and false when the only unexpired grants reaching the user are
\* view-level.
C19_ResultFollowsEffectiveLevel ==
    (Checked /\ users[access.user_id].role = "user") =>
        /\ access.result = (EffectiveRank >= Rank(access.required_level))
        /\ (access.required_level = "edit" /\ ~HasDirect /\ "admin" \in GroupLevels)
                => access.result = TRUE
        /\ (/\ access.required_level = "edit"
            /\ HasDirect => DirectGrant.access_level = "view"
            /\ GroupLevels \subseteq {"view"})
                => access.result = FALSE

\* C20: when a non-admin has both an unexpired direct grant and an
\* unexpired group grant on the widget, the level the check works with is
\* the direct one, higher or lower, and the result is decided by it.
C20_DirectGrantOverridesGroup ==
    (Checked /\ users[access.user_id].role # "admin" /\ HasDirect /\ GroupLevels # {}) =>
        /\ access.user_level = DirectGrant.access_level
        /\ access.result =
                (Rank(DirectGrant.access_level) >= Rank(access.required_level))

\* a user with a direct view grant and an admin-level group grant on the
\* widget asked for edit and was refused
C20_Witness ==
    /\ Checked
    /\ users[access.user_id].role = "user"
    /\ HasDirect /\ DirectGrant.access_level = "view"
    /\ "admin" \in GroupLevels
    /\ access.required_level = "edit"
    /\ access.user_level = "view"
    /\ access.result = FALSE

\* the levels of all unexpired grants that reach the user of the call
ReachingLevels ==
    GroupLevels \cup (IF HasDirect THEN {DirectGrant.access_level} ELSE {})

HighestRank(ls) ==
    IF ls = {} THEN 0
    ELSE CHOOSE n \in {Rank(l) : l \in ls} : \A l \in ls : Rank(l) <= n

\* C21: for a non-admin the level that check_widget_access works with is
\* the highest level among all unexpired grants that reach the user, the
\* direct one and those of every group the user is a member of.
C21_HighestGrantIsEffective ==
    (Checked /\ users[access.user_id].role # "admin") =>
        Rank(access.user_level) = HighestRank(ReachingLevels)

-----------------------------------------------------------------------------
(* Properties of the flat permissions *)

\* the baseline permissions of the user's role together with the user's
\* flat Permission rows
Capabilities(user_id) ==
    {r[2] : r \in {q \in role_permissions : q[1] = users[user_id].role}}
    \cup {r.permission : r \in {q \in flat_permissions : q.user_id = user_id}}

-----------------------------------------------------------------------------
(* Properties of the real-time channel *)

\* the connections that joined the room of a user and have not disconnected
Joined(user_id) == {sid \in Sids : conns[sid].live /\ sid \in rooms[user_id]}

\* C24: when join and disconnect events are handled one at a time, after
\* every event the registry maps each user room to exactly the connections
\* that joined it and have not disconnected, a disconnected connection is
\* in no room of the registry, and the registry holds no empty room.
C24_RegistryTracksConnections ==
    Quiet =>
        /\ \A u \in UserIds :
            /\ get_sessions(u) = Joined(u)
            /\ active_sessions[u] # 0 => heap[active_sessions[u]] # {}
        /\ \A sid \in Sids : ~conns[sid].live =>
            \A u \in UserIds : sid \notin get_sessions(u)

\* connection 1 was in both rooms and has disconnected: the connections
\* left in the two rooms were told the new count, and the registry holds
\* them and nothing else
C24_Witness ==
    /\ Quiet
    /\ ~conns[1].live /\ conns[2].live /\ conns[3].live
    /\ Joined(1) = {2} /\ Joined(2) = {3}
    /\ get_sessions(1) = {2} /\ get_sessions(2) = {3}
    /\ inbox[2] = [NoMessage EXCEPT !.event = "session_count_updated",
                                    !.user_id = 1, !.session_count = 1]
    /\ inbox[3] = [NoMessage EXCEPT !.event = "session_count_updated",
                                    !.user_id = 2, !.session_count = 1]

\* the step in which the client of a connection saves, and the step in
\* which its broadcast_preferences event is handled
Saves(sid) == conns[sid].pending = NoPayload /\ conns'[sid].pending # NoPayload
Announces(sid) == conns[sid].pending # NoPayload /\ conns'[sid].pending = NoPayload

\* C23: after a successful save by one connection of a user who has several
\* live joined connections (no join or disconnect running), every other
\* live connection in the user's room receives preferences_updated with
\* the document and version that the save stored and the session id of
\* the writer; a first save arrives as version 1.
C23_OthersReceiveTheUpdate ==
    [][\A sid \in Sids :
        LET user_id == conns[sid].user_id
        IN  /\ Saves(sid) =>
                LET data == conns'[sid].pending
                IN  /\ data.user_id = user_id
                    /\ json_dumps(data.preferences) = user_preferences'[user_id].preferences
                    /\ data.version = user_preferences'[user_id].version
                    /\ ~user_preferences[user_id].exists => data.version = 1
                    /\ data.origin_session_id = session_id(sid)
            /\ (/\ Announces(sid)
                /\ Quiet
                /\ sid \in Joined(user_id)
                /\ Cardinality(Joined(user_id)) > 1) =>
                \A other \in Joined(user_id) \ {sid} :
                    /\ inbox'[other].event = "preferences_updated"
                    /\ inbox'[other].payload = conns[sid].pending]_vars

\* C29: when the steps of join and disconnect handlers interleave, the
\* registry still ends up, once the handlers have finished, with exactly
\* the connections that are joined and live in each room.
C29_RegistrySurvivesInterleaving ==
    Quiet => \A u \in UserIds : get_sessions(u) = Joined(u)

\* C28: with the counter reads and writes of concurrent checks of one
\* (identity, endpoint) interleaved in any order, the counter of a window,
\* which is the number of requests allowed in it, never exceeds max_requests,
\* and no check ends in an error, the checks that find no counter row included.
C28_ConcurrentChecksKeepTheLimit ==
    /\ \A k \in RateKeys : rate_limits[k].count <= limits[k[2]]
    /\ \A w \in RateWorkers : rate_reqs[w].status # 500

\* the pair route's own judgement of a code: not expired, not paired
RouteAdmits(row) ==
    /\ row.exists
    /\ ~is_expired(row.expires_at, datetime_now)
    /\ ~already_used(row)

\* the window of a counter row has passed by the clock that wrote
\* window_start
WindowPassed(row) ==
    row.window_start < CURRENT_TIMESTAMP - timedelta_minutes(WINDOW_MINUTES)

\* C30: at every time and for every device code, a code that the pair
\* route judges unexpired and unpaired satisfies the WHERE clause of the
\* pairing UPDATE, so that the update pairs it unless another pairing comes
\* first; and the rate limiter finds the window of a counter row elapsed
\* exactly when it has elapsed by the clock that wrote window_start.
C30_OneClock ==
    /\ \A id \in CodeIds :
        RouteAdmits(device_codes[id]) => pair_where(device_codes[id], id)
    /\ \A k \in DOMAIN rate_limits :
        rate_limits[k].exists =>
            (window_elapsed(rate_limits[k]) <=> WindowPassed(rate_limits[k]))

-----------------------------------------------------------------------------
(* Properties of the admin routes *)

\* worker w takes up a request of an admin that targets the admin's own
\* account: a role change to anything but admin, or a toggle of the active flag
TargetsSelf(w) ==
    /\ FreeAuth(w)
    /\ auth_reqs'[w] # auth_reqs[w]
    /\ auth_reqs'[w].op \in {"change_role", "toggle"}
    /\ auth_reqs'[w].target = auth_reqs'[w].user_id
    /\ auth_reqs'[w].op = "change_role" => auth_reqs'[w].new_role # "admin"

\* C25: a request of an admin to change their own role to a role other than
\* admin, or to toggle their own active flag, is answered at once with
\* status 400, and the request writes nothing: the users table, and with it
\* the admin's role and active flag, is the same after the request.
C25_SelfChangeRejected ==
    [][\A w \in AdminWorkers :
        TargetsSelf(w) =>
            /\ auth_reqs'[w].pc = "done"
            /\ auth_reqs'[w].status = 400
            /\ users' = users]_vars

\* admin 1's request to become a 'user' has been refused and admin 1 is
\* still an active admin, while the other worker is busy demoting user 2
C25_Witness ==
    \E w, v \in AdminWorkers :
        /\ auth_reqs[w].op = "change_role" /\ auth_reqs[w].pc = "done"
        /\ auth_reqs[w].user_id = 1 /\ auth_reqs[w].target = 1
        /\ auth_reqs[w].new_role = "user" /\ auth_reqs[w].status = 400
        /\ auth_reqs[v].pc = "role_write" /\ auth_reqs[v].target = 2
        /\ users[1].role = "admin" /\ users[1].is_active

\* worker w's create_user inserts a row
Inserts(w) ==
    /\ auth_reqs[w].pc = "create_insert"
    /\ DOMAIN users' # DOMAIN users

\* C26: however create_user calls interleave from an empty users table on,
\* the user whose row is inserted into the empty table becomes admin and
\* every row inserted when a row exists already carries the role its caller
\* passed, so that exactly one user is auto-promoted; and no step of a
\* create_user call changes the role of a row that exists.
C26_OnlyFirstUserPromoted ==
    [][/\ \A w \in AdminWorkers :
            Inserts(w) =>
                \A id \in DOMAIN users' \ DOMAIN users :
                    users'[id].role = IF DOMAIN users = {} THEN "admin"
                                      ELSE auth_reqs[w].role
       /\ \A id \in DOMAIN users : users'[id].role = users[id].role]_vars

-----------------------------------------------------------------------------
(* Properties of the grants *)

\* the table a grant call writes, and the row of its subject and widget
GrantedRow(table) == table[<<granted.subject, granted.target>>]
GrantTable ==
    IF granted.op = "grant_group_widget_permission"
    THEN group_widget_permissions ELSE widget_permissions

\* C27: a grant of a widget permission to a user or to a group succeeds
\* whether or not the (subject, widget) pair has a row, and leaves for the
\* pair the one row with the level, the grantor and the expiry of that
\* grant, so that after two grants the row is that of the later one; a grant
\* of a flat permission that the user holds already is rejected and leaves
\* the permissions table as it was.
C27_GrantTwice ==
    [][/\ (granted' # granted
            /\ granted'.op \in {"grant_widget_permission",
                                "grant_group_widget_permission",
                                "bulk_grant_widget_permissions"}) =>
            /\ granted'.result
            /\ GrantedRow(GrantTable)' =
                    inserted_grant(granted'.access_level, granted'.granted_by,
                                   granted'.expires_at)
       /\ (granted' # granted /\ granted'.op = "grant_permission"
            /\ has_permission(granted'.subject, granted'.target)) =>
            /\ ~granted'.result
            /\ flat_permissions' = flat_permissions]_vars

\* user 2's row on "sales" has been granted a second time, by user 2 at
\* level view with an expiry, and is the row of that grant
C27_Witness ==
    /\ granted.op = "grant_widget_permission" /\ granted.branch = "update"
    /\ granted.subject = 2 /\ granted.granted_by = 2
    /\ widget_permissions[<<2, "sales">>] = inserted_grant("view", 2, 1)

-----------------------------------------------------------------------------
(* Routes behind both decorators.  pair_device and replace_preferences     *)
(* carry @require_auth above @rate_limit: the decorator written first      *)
(* wraps the other, so require_auth is the outer function and runs first,  *)
(* and rate_limit runs inside it.                                          *)

GuardedEndpoints == {"device.pair_device", "preferences.replace_preferences"}
remote_addr == "10.0.0.7"
GuardKeys == ({ToString(u) : u \in UserIds} \cup {remote_addr}) \X GuardedEndpoints

IdleGuard ==
    [pc |-> "idle", identifier |-> "", endpoint |-> "", branch |-> "",
     status |-> 0, presented |-> NoCredential, user_id |-> None]

\* what get_current_user returns for a bearer token: the id of the user,
\* or None for a missing, bad, expired or non-access token and for an
\* inactive user
current_users(cred) ==
    {IF has_type(payload, "access") /\ get_user_by_id(payload.user_id).is_active
     THEN payload.user_id ELSE None : payload \in decode_token(cred)}

\* require_auth, the outer decorator: 401 without a current user
RequireAuth(w) ==
    /\ FreeRate(w)
    /\ nrate < MaxChecks
    /\ nrate' = nrate + 1
    /\ \E cred \in Credentials \cup {NoCredential}, endpoint \in GuardedEndpoints :
       \E user \in current_users(cred) :
        LET q == [IdleGuard EXCEPT !.presented = cred, !.endpoint = endpoint]
        IN  rate_reqs' = [rate_reqs EXCEPT ![w] =
                IF user = None
                THEN [q EXCEPT !.pc = "done", !.status = 401]
                ELSE [q EXCEPT !.pc = "rate_limit", !.user_id = user]]
    /\ UNCHANGED <<prefs_vars, side_vars, device_vars, session_vars, sqlite_sequence, now,
                   rate_limits, limits, widget_vars>>

\* rate_limit, the inner decorator, up to the write of check_rate_limit:
\* the identifier is taken from a second get_current_user
RateLimit(w) ==
    /\ rate_reqs[w].pc = "rate_limit"
    /\ \E user \in current_users(rate_reqs[w].presented) :
        LET identifier == IF user # None THEN ToString(user) ELSE remote_addr
            r == [rate_reqs[w] EXCEPT !.identifier = identifier]
            result == rate_limits[<<identifier, r.endpoint>>]
        IN  rate_reqs' = [rate_reqs EXCEPT ![w] =
                IF ~result.exists
                THEN [r EXCEPT !.pc = "write", !.branch = "insert"]
                ELSE IF window_elapsed(result)
                THEN [r EXCEPT !.pc = "write", !.branch = "reset"]
                ELSE IF result.count >= limits[r.endpoint]
                THEN [r EXCEPT !.pc = "done", !.branch = "limited", !.status = 429]
                ELSE [r EXCEPT !.pc = "write", !.branch = "increment"]]
    /\ UNCHANGED <<prefs_vars, side_vars, device_vars, session_vars, sqlite_sequence, now,
                   rate_limits, limits, nrate, widget_vars>>

\* Requests to the guarded routes, two at a time, with any bearer token a
\* client can hold; the second user may have been deactivated
InitGuard ==
    /\ NoPrefs
    /\ now = 0
    /\ users \in {[InitialUsers EXCEPT ![2].is_active = is_active] :
                    is_active \in BOOLEAN}
    /\ NoDevices
    /\ tz = 0
    /\ NoLogins
    /\ rate_limits = [k \in GuardKeys |-> NoRate]
    /\ limits \in [GuardedEndpoints -> 1..MaxLimit]
    /\ rate_reqs = [w \in RateWorkers |-> IdleGuard]
    /\ nrate = 0
    /\ NoWidgets
    /\ NoSide

NextGuard ==
    \/ TickWindow
    \/ \E w \in RateWorkers : RequireAuth(w)
    \/ \E w \in RateWorkers : RateLimit(w)
    \/ \E w \in RateWorkers : RateWrite(w)

SpecGuard == InitGuard /\ [][NextGuard]_vars

\* the request of worker w has an authentication outcome: 401, or a user
HasAuthOutcome(w) ==
    rate_reqs[w].status = 401 \/ rate_reqs[w].user_id # None

\* the request of worker w has been through the SELECT of check_rate_limit
HasBeenChecked(w) == rate_reqs[w].branch # ""

\* C31: on a route that is both rate limited and authenticated the rate
\* limiter runs before the bearer token is validated: no request has an
\* authentication outcome before check_rate_limit has looked at its
\* counter, so requests with a missing or invalid token use up budget too.
C31_LimiterBeforeAuth ==
    \A w \in DOMAIN rate_reqs : HasAuthOutcome(w) => HasBeenChecked(w)

\* a request with a bad token was answered 401 and no counter was written
C31_Unmetered ==
    /\ \E w \in DOMAIN rate_reqs :
        rate_reqs[w].pc = "done" /\ rate_reqs[w].status = 401
    /\ \A k \in DOMAIN rate_limits : ~rate_limits[k].exists
    /\ nrate = MaxChecks

-----------------------------------------------------------------------------
(* Properties of the admin routes under interleaving *)

\* the users who can pass require_role('admin')
ActiveAdmins ==
    {u \in DOMAIN users : users[u].is_active /\ users[u].role = "admin"}

\* C34: once an active admin exists, at least one active admin exists in
\* every later state, under any interleaving of role-change and
\* toggle-active requests, two admins acting on each other included.
C34_AnAdminRemains == ActiveAdmins # {}

-----------------------------------------------------------------------------
(* Accounts that change while their tokens are in use: the refresh route   *)
(* and the bearer check next to the admin's role change and toggle-active. *)

\* Both users have signed in at time 0 and hold the session of that login
InitAccount ==
    /\ NoPrefs
    /\ now = 0
    /\ users = InitialUsers
    /\ tz = 0
    /\ NoDevices
    /\ sessions = {[id |-> u, user_id |-> u,
                    refresh_token |-> generate_refresh_token(u),
                    expires_at |-> datetime_now + timedelta_days(SESSION_DAYS)] :
                        u \in UserIds}
    /\ sqlite_sequence = [sessions |-> Cardinality(UserIds), device_sessions |-> 0]
    /\ auth_reqs = [w \in AuthWorkers |-> IdleAuth]
    /\ nauth = 0
    /\ NoGates
    /\ NoSide

NextAccount ==
    \/ \E w \in AuthWorkers : get_current_user(w)
    \/ \E w \in AuthWorkers : RefreshLookup(w)
    \/ \E w \in AuthWorkers : RefreshUser(w)
    \/ \E w \in AuthWorkers : RoleRead(w)
    \/ \E w \in AuthWorkers : RoleWrite(w)
    \/ \E w \in AuthWorkers : ToggleRead(w)
    \/ \E w \in AuthWorkers : ToggleWrite(w)
    \/ \E w \in AuthWorkers : ToggleSessions(w)

SpecAccount == InitAccount /\ [][NextAccount]_vars

\* the role a user had at the login that issued the refresh token: the
\* logins are those of InitAccount
issued_role(refresh_token) == InitialUsers[refresh_token.user_id].role

\* worker w holds the 200 response of a refresh
Refreshed(w) ==
    /\ auth_reqs[w].op = "refresh"
    /\ auth_reqs[w].pc = "done"
    /\ auth_reqs[w].status = 200

\* C33 as stated: the access token returned by refresh carries the subject
\* of the refresh token and the role the user had when the refresh token
\* was issued, also when the role was changed between login and refresh.
C33_RoleAtIssue ==
    \A w \in DOMAIN auth_reqs :
        Refreshed(w) =>
            /\ auth_reqs[w].access_token.user_id = auth_reqs[w].presented.token.user_id
            /\ auth_reqs[w].access_token.role = issued_role(auth_reqs[w].presented.token)

\* C33, amended: the access token returned by refresh is an access token
\* that carries the subject of the refresh token and the role the users
\* row of that subject holds when the refresh is served.
C33_RoleAtRefresh ==
    [][\A w \in DOMAIN auth_reqs :
        (auth_reqs[w].pc = "refresh_user" /\ Refreshed(w)') =>
            LET access_token == auth_reqs'[w].access_token
                subject == auth_reqs'[w].presented.token.user_id
            IN  /\ access_token.type = "access"
                /\ access_token.user_id = subject
                /\ access_token.role = users[subject].role]_vars

\* user 2, a plain user at login and an admin since, has refreshed
C33_Witness ==
    \E w \in DOMAIN auth_reqs :
        /\ Refreshed(w)
        /\ auth_reqs[w].presented.token.user_id = 2
        /\ auth_reqs[w].access_token.role = "admin"
        /\ issued_role(auth_reqs[w].presented.token) = "user"

-----------------------------------------------------------------------------
(* Deactivation: toggle-active next to the requests of the user it turns   *)
(* off: the bearer check, the refresh route and the poll of a device code  *)
(* the user has paired.                                                    *)

\* Both users have signed in at time 0; the device codes have been paired
\* by user 2 and not yet polled.
InitDeactivate ==
    /\ NoPrefs
    /\ now = 0
    /\ users = InitialUsers
    /\ tz = 0
    /\ device_codes = [id \in CodeIds |->
            [create_device_code(id) EXCEPT !.user_id = 2,
                                           !.paired_at = CURRENT_TIMESTAMP]]
    /\ pair_log = [id \in CodeIds |-> <<2>>]
    /\ device_sessions = {}
    /\ reqs = [w \in DeviceWorkers |-> IdleReq]
    /\ nreqs = 0
    /\ sessions = {[id |-> u, user_id |-> u,
                    refresh_token |-> generate_refresh_token(u),
                    expires_at |-> datetime_now + timedelta_days(SESSION_DAYS)] :
                        u \in UserIds}
    /\ sqlite_sequence = [sessions |-> Cardinality(UserIds), device_sessions |-> 0]
    /\ auth_reqs = [w \in AuthWorkers |-> IdleAuth]
    /\ nauth = 0
    /\ NoGates
    /\ NoSide

NextDeactivate ==
    \/ \E w \in AuthWorkers : get_current_user(w)
    \/ \E w \in AuthWorkers : RefreshLookup(w)
    \/ \E w \in AuthWorkers : RefreshUser(w)
    \/ \E w \in AuthWorkers : ToggleRead(w)
    \/ \E w \in AuthWorkers : ToggleWrite(w)
    \/ \E w \in AuthWorkers : ToggleSessions(w)
    \/ \E w \in DeviceWorkers : PollLookup(w)
    \/ \E w \in DeviceWorkers : PollUser(w)
    \/ \E w \in DeviceWorkers : PollCreateSession(w)

SpecDeactivate == InitDeactivate /\ [][NextDeactivate]_vars

\* worker w answers a toggle-active that has set its target inactive
Deactivates(w) ==
    /\ auth_reqs[w].pc = "toggle_sessions"
    /\ auth_reqs'[w].pc = "done"

\* C35: after toggle-active has set a user inactive, no Session row and no
\* DeviceSession row of that user remains, so that no refresh token issued
\* earlier can be refreshed again, also after the user is reactivated.
C35_DeactivationEndsSessions ==
    [][\A w \in DOMAIN auth_reqs :
        Deactivates(w) =>
            /\ \A s \in sessions' : s.user_id # auth_reqs[w].target
            /\ \A s \in device_sessions' : s.user_id # auth_reqs[w].target]_vars

\* a refresh token of user 2 issued before a deactivation is refreshed
\* while no sessions row of user 2 is left
C35_RefreshedAfterwards ==
    \E w \in DOMAIN auth_reqs :
        /\ Refreshed(w)
        /\ auth_reqs[w].presented.token.user_id = 2
        /\ \A s \in sessions : s.user_id # 2

\* the request worker w answers in this step, made with a token of user u
AnswersFor(w, u) ==
    /\ auth_reqs'[w] # auth_reqs[w]
    /\ auth_reqs'[w].pc = "done"
    /\ auth_reqs'[w].op \in {"bearer", "refresh"}
    /\ auth_reqs'[w].presented.token.user_id = u

\* C36: from the moment a user is inactive, every request with the user's
\* unexpired access token is rejected with authentication required, every
\* refresh fails, and every poll of a device code paired to that user
\* returns an error without minting tokens or creating a DeviceSession.
C36_InactiveUserIsShutOut ==
    [][\A u \in DOMAIN users :
        ~users[u].is_active =>
            /\ \A w \in DOMAIN auth_reqs :
                AnswersFor(w, u) => auth_reqs'[w].status = 401
            /\ \A s \in device_sessions' \ device_sessions : s.user_id # u
            /\ \A w \in DOMAIN reqs :
                (reqs'[w] # reqs[w] /\ reqs'[w].user_id = u) =>
                    reqs'[w].resp # "authorized"]_vars

\* the same for the requests whose lookup of the user runs from that
\* moment on: the bearer check, the refresh and the user lookup of the poll
C36_LookupsShutOut ==
    [][\A u \in DOMAIN users :
        ~users[u].is_active =>
            /\ \A w \in DOMAIN auth_reqs :
                AnswersFor(w, u) => auth_reqs'[w].status = 401
            /\ \A w \in DOMAIN reqs :
                (reqs[w].pc = "poll_user" /\ reqs[w].device_code_data.user_id = u) =>
                    /\ reqs'[w].pc = "done" => reqs'[w].status = 401
                    /\ reqs'[w].pc # "poll_session"]_vars

-----------------------------------------------------------------------------
(* Properties of the preference store under interleaved writers *)

\* worker w commits the write of an update or a delete in this step
WritesEdit(w) ==
    /\ calls[w].op \in {"update", "delete"}
    /\ calls[w].pc = "set_write"
    /\ calls'[w].ret.kind = "version"

\* C32: preference writes of one user are never lost or applied out of
\* order: a successful update or delete stores the merge, or the removal,
\* applied to the document stored immediately before its write, also when
\* another writer has committed between its read and its write.
C32_EditsApplyToTheStoredDocument ==
    [][\A w \in DOMAIN calls :
        WritesEdit(w) =>
            LET c == calls[w]
                before == Stored(c.user_id).v
            IN  Stored(c.user_id)' =
                    IF c.op = "update"
                    THEN Obj(deep_merge(before, c.arg.v))
                    ELSE Obj(delete_keys(before, key_list(c.arg)))]_vars

\* the response of delete_preference and of batch_delete_preferences to
\* what delete_user_preferences returned (a version, or None) or raised:
\* the routes test only for an exception
delete_response(ret) ==
    IF ret.kind = "raise"
    THEN [status |-> 500, success |-> FALSE, version |-> None]
    ELSE [status |-> 200, success |-> TRUE,
          version |-> IF ret.kind = "version" THEN ret.version ELSE None]

\* C39: the delete endpoints report success only when the deletion was
\* written: on Conflict the response is not a success that carries no
\* version.
C39_DeleteSuccessMeansWritten ==
    \A w \in DOMAIN calls :
        (Done(w, "delete") /\ delete_response(calls[w].ret).success)
            => /\ Success(w)
               /\ delete_response(calls[w].ret).version # None

-----------------------------------------------------------------------------
(* The preference routes: whose document a request addresses.  get,        *)
(* replace and update take impersonated_user_id from the request; the      *)
(* delete routes do not look at it.                                        *)

\* a call with the signed-in user who sent the request and the
\* impersonated_user_id the request carried
IdleRoute == Idle @@ [caller |-> 0, impersonated_user_id |-> None]

\* impersonated_user_id as a client may send it: absent, or the id of
\* another user
Impersonated(caller) == {None} \cup (UserIds \ {caller})

\* the bodies the clients send: {"a": 3} to replace or to merge, "a.x" to
\* delete
RouteDocuments == {Obj(ka :> Num(3))}
RouteKeys == {[k |-> "str", v |-> k_a_x]}

\* the test of the routes with the role left out
target_user_id_any_role(user, impersonated_user_id) ==
    IF impersonated_user_id # None THEN impersonated_user_id ELSE user.id

\* target_user_id = user['id'], replaced by impersonated_user_id when one
\* is given and the caller is an admin
target_user_id(user, impersonated_user_id) ==
    IF impersonated_user_id # None /\ user.role = "admin"
    THEN impersonated_user_id
    ELSE user.id

\* a request of the active user caller, admitted by require_auth, becomes
\* the database call of its route
Route(w, caller) ==
    /\ calls[w].pc = "idle" /\ ncalls < MaxCalls
    /\ users[caller].is_active
    /\ ncalls' = ncalls + 1
    /\ UNCHANGED <<user_preferences, now, wcount, device_vars, rest_vars, sqlite_sequence>>

get_preferences(w) ==
    \E caller \in UserIds : \E impersonated_user_id \in Impersonated(caller) :
        /\ Route(w, caller)
        /\ calls' = [calls EXCEPT ![w] =
                [IdleRoute EXCEPT
                    !.op = "get", !.pc = "get", !.caller = caller,
                    !.impersonated_user_id = impersonated_user_id,
                    !.user_id = target_user_id(users[caller], impersonated_user_id)]]

replace_preferences(w) ==
    \E caller \in UserIds, preferences \in RouteDocuments :
      \E impersonated_user_id \in Impersonated(caller) :
        /\ Route(w, caller)
        /\ calls' = [calls EXCEPT ![w] =
                [IdleRoute EXCEPT
                    !.op = "set", !.pc = "set_read", !.caller = caller,
                    !.impersonated_user_id = impersonated_user_id,
                    !.user_id = target_user_id(users[caller], impersonated_user_id),
                    !.preferences = preferences]]

update_preferences(w) ==
    \E caller \in UserIds, preference_updates \in RouteDocuments :
      \E impersonated_user_id \in Impersonated(caller) :
        /\ Route(w, caller)
        /\ calls' = [calls EXCEPT ![w] =
                [IdleRoute EXCEPT
                    !.op = "update", !.pc = "upd_get", !.caller = caller,
                    !.impersonated_user_id = impersonated_user_id,
                    !.user_id = target_user_id(users[caller], impersonated_user_id),
                    !.arg = preference_updates]]

\* delete_preference and batch_delete_preferences: always the caller's id
delete_preference(w) ==
    \E caller \in UserIds, preference_key \in RouteKeys :
      \E impersonated_user_id \in Impersonated(caller) :
        /\ Route(w, caller)
        /\ calls' = [calls EXCEPT ![w] =
                [IdleRoute EXCEPT
                    !.op = "delete", !.pc = "del_get", !.caller = caller,
                    !.impersonated_user_id = impersonated_user_id,
                    !.user_id = caller,
                    !.arg = preference_key]]

\* the response is sent
RouteReturn(w) ==
    /\ calls[w].pc = "done"
    /\ calls' = [calls EXCEPT ![w] = IdleRoute]
    /\ UNCHANGED <<user_preferences, now, ncalls, wcount, device_vars, rest_vars, sqlite_sequence>>

\* Each user has stored a document once; users 1 (admin) and 2 send
\* requests
InitRoutes ==
    /\ user_preferences \in [UserIds -> InitialRows \ {NoRow}]
    /\ user_preferences[1] # user_preferences[2]
    /\ now = 0
    /\ calls = [w \in Workers |-> IdleRoute]
    /\ ncalls = 0
    /\ wcount = [u \in UserIds |-> user_preferences[u].version]
    /\ users = InitialUsers
    /\ NoDevices
    /\ tz = 0
    /\ NoLogins
    /\ NoGates
    /\ NoSide

NextRoutes ==
    \/ \E w \in Workers : get_preferences(w)
    \/ \E w \in Workers : replace_preferences(w)
    \/ \E w \in Workers : update_preferences(w)
    \/ \E w \in Workers : delete_preference(w)
    \/ \E w \in Workers : Get(w)
    \/ \E w \in Workers : UpdateGet(w)
    \/ \E w \in Workers : DeleteGet(w)
    \/ \E w \in Workers : SetRead(w)
    \/ \E w \in Workers : SetWrite(w)
    \/ \E w \in Workers : RouteReturn(w)

SpecRoutes == InitRoutes /\ [][NextRoutes]_vars

\* the call of worker w was sent by a user who is not an admin
ByPlainUser(w) ==
    /\ calls[w].pc # "idle"
    /\ users[calls[w].caller].role # "admin"

\* C37: a caller who is not an admin reads and changes only their own
\* preference document, whatever impersonated_user_id the request carries:
\* every statement of the caller's request addresses the caller's row, a
\* get returns the caller's document, and a row is changed only by a
\* request of its user or of an admin.
C37_PlainUsersOwnDocumentOnly ==
    [][/\ \A w \in DOMAIN calls :
            ByPlainUser(w) =>
                /\ calls[w].user_id = calls[w].caller
                /\ (calls[w].pc = "get" /\ calls'[w].pc = "done")
                        => calls'[w].ret.preferences = Stored(calls[w].caller)
       /\ \A u \in DOMAIN user_preferences :
            user_preferences'[u] # user_preferences[u] =>
                \E w \in DOMAIN calls :
                    /\ calls[w].pc = "set_write"
                    /\ calls'[w].pc = "done"
                    /\ calls[w].user_id = u
                    /\ ~ByPlainUser(w) \/ calls[w].caller = u]_vars

\* user 2 has replaced a document in a request that named user 1, and has
\* read one: user 1's row is as it was, user 2's is at its second version
C37_Witness ==
    \E ws, wg \in DOMAIN calls :
        /\ Done(ws, "set") /\ Success(ws) /\ Done(wg, "get")
        /\ calls[ws].caller = 2 /\ calls[ws].impersonated_user_id = 1
        /\ calls[wg].caller = 2 /\ calls[wg].impersonated_user_id = 1
        /\ calls[wg].ret.preferences = calls[ws].preferences
        /\ user_preferences[1].version = 1
        /\ user_preferences[2].version = 2

-----------------------------------------------------------------------------
(* Pairing on a server whose local time is UTC: whose device a code is *)

InitPairing ==
    /\ NoPrefs
    /\ now = 0
    /\ users = InitialUsers
    /\ device_codes = [id \in CodeIds |-> NoCode]
    /\ device_sessions = {}
    /\ tz = 0
    /\ reqs = [w \in DeviceWorkers |-> IdleReq]
    /\ nreqs = 0
    /\ pair_log = [id \in CodeIds |-> <<>>]
    /\ NoLogins
    /\ NoGates
    /\ NoSide

NextPairing ==
    \/ Tick
    \/ request_device_code
    \/ cleanup_expired_device_codes
    \/ \E w \in DeviceWorkers : PairLookup(w)
    \/ \E w \in DeviceWorkers : PairUpdate(w)
    \/ \E w \in DeviceWorkers : PollLookup(w)
    \/ \E w \in DeviceWorkers : PollUser(w)
    \/ \E w \in DeviceWorkers : PollCreateSession(w)

SpecPairing == InitPairing /\ [][NextPairing]_vars

\* C38: once the user_id of a device code is set it never changes and never
\* returns to null, and every DeviceSession created from a code has the
\* user_id the code was given when it was paired.
C38_PairedUserIsKept ==
    [][/\ \A id \in DOMAIN device_codes :
            device_codes[id].user_id # None
                => device_codes'[id].user_id = device_codes[id].user_id
       /\ \A s \in device_sessions' :
            /\ s.user_id = device_codes'[s.device_code_id].user_id
            /\ s.user_id = pair_log'[s.device_code_id][1]]_vars

\* a code paired by user 2 has been polled into a DeviceSession of user 2,
\* and user 1's later request to pair the same code was refused
C38_Witness ==
    \E w \in DOMAIN reqs, s \in device_sessions :
        /\ DonePair(w) /\ reqs[w].user_id = 1 /\ reqs[w].status = 400
        /\ reqs[w].code = s.device_code_id
        /\ s.user_id = 2
        /\ device_codes[s.device_code_id].user_id = 2

-----------------------------------------------------------------------------
(* Whose room a connection is in *)

\* the events that carry a user's state to the members of the user's room
RoomEvents == {"preferences_updated", "session_count_updated"}

\* C40: a connection receives preferences_updated and session_count_updated
\* only for its own user: no connection joins, or broadcasts into, the room
\* of another user.
C40_OwnRoomOnly ==
    \A sid \in DOMAIN conns :
        /\ \A user_id \in DOMAIN rooms :
            sid \in rooms[user_id] => conns[sid].user_id = user_id
        /\ inbox[sid].event \in RoomEvents
            => inbox[sid].user_id = conns[sid].user_id

\* a connection of user 2 has received the preferences of user 1
C40_Eavesdropped ==
    \E sid \in DOMAIN conns :
        /\ conns[sid].user_id = 2
        /\ inbox[sid].event = "preferences_updated"
        /\ inbox[sid].user_id = 1

=========================================================================
